---- MODULE Spec2Model ----
(***************************************************************************)
(* Retrieval-augmented agent pipelines of the two demo backends:           *)
(*   - logistics-route-planner: run_route_validation_agent                 *)
(*     (app/services/agent_langchain.py) behind POST /ai/validate-route    *)
(*   - ai-web: run_release_readiness_agent (app/services/agent.py) behind  *)
(*     POST /ai/release-readiness, and run_chat (app/services/chatbot.py)  *)
(* One request runs at a time (a synchronous call chain); pc is the        *)
(* position of the running request inside its handler.                     *)
(***************************************************************************)
EXTENDS Integers, Sequences, FiniteSets, TLC

VARIABLES
    pc,                \* position of the request inside the handler
    kind,              \* which handler or script runs: "none", "route", "release", ...
    route_request,     \* RouteRequest of the route agent
    hasDb,             \* db is not None
    llm_configured,    \* an LLM provider is configured and importable
    rag_contexts,      \* list[RetrievedContext] of the run
    tool_calls,        \* the run's tool-call trace
    tool_results,      \* route agent: dict key -> tool output string
    invoked,           \* history: capabilities attempted so far, in invocation order
    tool_context,      \* route agent: labelled sections of the context given to the LLM
    llm_called,        \* the provider was called during this run
    agent_output,      \* text returned by the LLM provider
    validation_result, \* route agent: the RouteValidationResult it returns
    context,           \* release agent: AgentRunContext; chat: the message
    gemini,            \* release agent: what _generate_gemini_insight returned
    run_result,        \* release agent: AgentRunResult; chat: ChatResult
    agentRuns,         \* table agent_runs
    outcome,           \* "none", "returned", "AgentServiceError", "exception"
    raised_by,         \* the step whose exception reached the caller
    http_status,       \* status the router answers with
    timing_request,    \* validate_route_timing: the route_request dict it is given
    timing_arrivals,   \* history: current_time at each stop of the loop
    timing_result,     \* validate_route_timing: the dict it serialises
    backend,           \* which app.services.rag is running: "ai-web" or "logistics"
    hash_seed,         \* hash randomisation seed of the worker process
    chunks,            \* table document_chunks
    db_commits,        \* number of db.commit() calls made by ensure_embeddings
    embed_calls,       \* number of embed_text calls made so far
    ensure_calls,      \* number of ensure_embeddings calls that returned
    retrieval,         \* the last Retriever.search call and what it gave
    metrics_call,      \* calculate_route_metrics: providers available, tried, and the result
    weather_call,      \* check_weather_conditions: HTTP requests made and the result
    echo_attempts,     \* table echo_attempts
    echo_reqs,         \* ai-web flaky echo: the requests in flight, each with its session's view
    echo_log,          \* history: the echo requests answered so far
    ingested,          \* logistics: table document_chunks as ingest_documents.py fills it
    ingest_log,        \* history: ingest_file calls made, latest text ingested per file
    rag_reqs,          \* concurrent retrieval: the two requests, each with its session's rows
    retrievers,        \* the Retriever objects constructed so far
    rag_hist           \* history: the store the requests started from, commits, ingestions

vars == <<pc, kind, route_request, hasDb, llm_configured, rag_contexts, tool_calls,
          tool_results, invoked, tool_context, llm_called, agent_output,
          validation_result, context, gemini, run_result, agentRuns, outcome,
          raised_by, http_status, timing_request, timing_arrivals, timing_result,
          backend, hash_seed, chunks, db_commits, embed_calls, ensure_calls, retrieval,
          metrics_call, weather_call, echo_attempts, echo_reqs, echo_log,
          ingested, ingest_log, rag_reqs, retrievers, rag_hist>>

timingVars == <<timing_request, timing_arrivals, timing_result>>
ragVars == <<backend, hash_seed, chunks, db_commits, embed_calls, ensure_calls, retrieval>>
pipelineVars == <<route_request, hasDb, llm_configured, rag_contexts, tool_calls,
                  tool_results, invoked, tool_context, llm_called, agent_output,
                  validation_result, context, gemini, run_result, agentRuns>>
toolVars == <<metrics_call, weather_call>>
echoVars == <<echo_attempts, echo_reqs, echo_log>>
ingestVars == <<ingested, ingest_log>>
sharedVars == <<rag_reqs, retrievers, rag_hist>>
moreVars == <<toolVars, echoVars, ingestVars, sharedVars>>
\* what the tool calls, the echo handlers, the ingestion script and the
\* concurrent retrievals, respectively, leave alone
notToolVars == <<pipelineVars, timingVars, ragVars, echoVars, ingestVars, sharedVars>>
notEchoVars == <<pipelineVars, timingVars, ragVars, toolVars, ingestVars, sharedVars>>
notIngestVars == <<pipelineVars, timingVars, ragVars, toolVars, echoVars, sharedVars>>
notSharedVars == <<pipelineVars, timingVars, toolVars, echoVars, ingestVars>>

(***************************************************************************)
(* Bounds                                                                  *)
(***************************************************************************)
MaxStops == 2
MaxDocs == 1

\* Python None for the optional numeric fields (figures are never negative)
None == -1

Min(a, b) == IF a < b THEN a ELSE b

\* str.lower() of a word
Lower(word) ==
    IF word = "Rain" THEN "rain" ELSE IF word = "HIGH" THEN "high"
    ELSE IF word = "San Francisco" THEN "san francisco"
    ELSE IF word = "Boston" THEN "boston" ELSE word

RECURSIVE SeqToSet(_)
SeqToSet(s) == IF s = <<>> THEN {} ELSE {Head(s)} \cup SeqToSet(Tail(s))

(***************************************************************************)
(* Requests of the route agent (schemas/route_planning.py)                 *)
(***************************************************************************)
Tasks == {"validate_route", "optimize_route", "validate_and_recommend"}

StopIds == <<"s1", "s2", "s3">>

\* DeliveryStop: the n first stop ids; rev gives the stops a sequence_number
\* order that is the reverse of the list order
DeliveryStops(n, rev) ==
    [i \in 1..n |-> [stop_id |-> StopIds[i],
                     sequence_number |-> IF rev THEN n + 1 - i ELSE i]]

StopLists == {DeliveryStops(n, FALSE) : n \in 0..MaxStops}
             \cup {DeliveryStops(n, TRUE) : n \in 2..MaxStops}

RouteRequest == [route_id : {"RT-001"}, task : Tasks, stops : StopLists,
                 has_constraints : BOOLEAN]

NoRequest == [route_id |-> "", task |-> "validate_route", stops |-> <<>>,
              has_constraints |-> FALSE]

(***************************************************************************)
(* Tool outputs.  A tool returns a JSON string; the agent keeps either     *)
(* that string or, when the invocation raised, a plain message.            *)
(***************************************************************************)
WeatherPayloads ==
    {[error |-> TRUE, conditions |-> "", delivery_impact |-> ""],
     [error |-> FALSE, conditions |-> "Rain", delivery_impact |-> "MODERATE"]}

MetricsPayloads ==
    {[error |-> TRUE, distance_km |-> None, estimated_time_hours |-> None],
     [error |-> FALSE, distance_km |-> 12, estimated_time_hours |-> 2]}

TimingPayloads ==
    {[error |-> TRUE, has_is_valid |-> FALSE, is_valid |-> FALSE, issues |-> <<>>],
     [error |-> FALSE, has_is_valid |-> TRUE, is_valid |-> TRUE, issues |-> <<>>],
     [error |-> FALSE, has_is_valid |-> TRUE, is_valid |-> FALSE,
      issues |-> <<"s1: Late arrival">>]}

OptimizationPayloads ==
    {[error |-> TRUE, status |-> ""],
     [error |-> FALSE, status |-> "ready_for_optimization"]}

TrafficPayloads ==
    {[error |-> TRUE, traffic_level |-> "", delay_factor |-> None],
     [error |-> FALSE, traffic_level |-> "heavy", delay_factor |-> 2]}

\* tool_results values: absent key, plain message of an except clause, JSON string
Absent == [form |-> "absent"]
Message == [form |-> "text"]
Json(p) == [form |-> "json", data |-> p]

ResultKeys == <<"weather", "metrics", "timing_validation", "optimization", "traffic">>

NoResults == [k \in SeqToSet(ResultKeys) |-> Absent]

\* documents the retriever can return, closest first
Docs == <<[content |-> "Rain slows deliveries", source |-> "A", score |-> 1],
          [content |-> "Sunny day ahead", source |-> "B", score |-> 2]>>

(***************************************************************************)
(* LLM replies: a reply is a list of lines; a line is its text up to the   *)
(* first blank (head), the rest (text), the stop ids it lists and the      *)
(* figures it states.                                                       *)
(***************************************************************************)
Line(head, text) == [head |-> head, text |-> text, ids |-> <<>>, hours |-> None, km |-> None]

LLMReplies ==
    { <<>>,
      << Line("VALID:", "true"), Line("RECOMMENDATION:", "Leave earlier"),
         [head |-> "SUMMARY:", text |-> "Feasible", ids |-> <<>>, hours |-> 9, km |-> 99] >>,
      << Line("VALID:", "false"), Line("ISSUE:", "Window too tight") >>,
      << [head |-> "OPTIMIZED_ORDER:", text |-> "s2,s1", ids |-> <<"s2", "s1">>,
          hours |-> None, km |-> None] >>,
      << [head |-> "OPTIMIZED_ORDER:", text |-> "s1,s1", ids |-> <<"s1", "s1">>,
          hours |-> None, km |-> None] >>,
      << [head |-> "The", text |-> "route takes 9 hours", ids |-> <<>>, hours |-> 9, km |-> 99] >> }

NoResult == [is_valid |-> TRUE, issues |-> <<>>, recommendations |-> <<>>,
             action_plan |-> <<>>, optimized_stop_order |-> [some |-> FALSE, v |-> <<>>],
             summary |-> "", estimated_duration_hours |-> None,
             estimated_distance_km |-> None, tool_calls |-> <<>>]

(***************************************************************************)
(* Static catalog and requests of the release agent (ai-web agent_tools.py)*)
(***************************************************************************)
_FEATURE_BRIEFS == {"curriculum-pathways", "team-analytics"}
_LAUNCH_WINDOWS == {"curriculum-pathways", "team-analytics"}

\* number of contacts fetch_support_contacts returns for a role
ContactCount(role) ==
    IF role = "Instructor" THEN 2 ELSE 1

\* list_slo_watch_items
SloItems(slug) ==
    IF slug = "curriculum-pathways"
    THEN <<"Lesson ingestion latency", "Planner schema compliance">>
    ELSE IF slug = "team-analytics"
    THEN <<"Dashboard query time", "Aggregation CPU">>
    ELSE <<>>

AgentRunContext == [feature_slug : _FEATURE_BRIEFS \cup {"unknown-feature"},
                    audience_role : {"Instructor", "Student"},
                    include_risks : BOOLEAN]

NoContext == [feature_slug |-> "", audience_role |-> "", include_risks |-> FALSE]

\* replies of the Gemini model to the release agent: a line is its prefix
\* (up to the first colon) and the "|"-separated parts after it
GeminiReplies ==
    { <<>>,
      << [head |-> "INSIGHT:", parts |-> <<"Ready to launch">>],
         [head |-> "RECOMMENDATION_1:", parts |-> <<"Rehearse", "Run a drill", "high">>],
         [head |-> "RECOMMENDATION_2:", parts |-> <<"Notify", "Tell support", "urgent">>] >>,
      << [head |-> "RECOMMENDATION_1:", parts |-> <<"Rehearse", "Run a drill", "low">>] >>,
      << [head |-> "INSIGHT:", parts |-> <<"">>] >>,
      << [head |-> "RECOMMENDATION:", parts |-> <<"Stage", "Roll out in stages", "high">>],
         [head |-> "RECOMMENDATION_2:", parts |-> <<"Watch", "Watch the dashboards", "HIGH">>] >>,
      << [head |-> "Sure", parts |-> <<"here is my view">>] >> }

NoGemini == [insight |-> [some |-> FALSE, v |-> ""], recommendations |-> <<>>]

NoRunResult == [summary |-> "", gemini_insight |-> [some |-> FALSE, v |-> ""],
                recommended_actions |-> <<>>, tool_calls |-> <<>>, rag_contexts |-> <<>>,
                used_gemini |-> FALSE]

(***************************************************************************)
(* _parse_validation_result (agent_langchain.py)                           *)
(***************************************************************************)
\* json.loads of a tool_results value succeeds
Loads(v) == v.form = "json"

\* dict.get(key) of a parsed payload: None when the key is missing
Get(data, key) == IF key \in DOMAIN data THEN data[key] ELSE None

\* one iteration of the line loop over the accumulator acc
ParseLine(line, acc) ==
    IF line.head = "VALID:"
    THEN [acc EXCEPT !.is_valid = (line.text = "true")]
    ELSE IF line.head = "ISSUE:"
    THEN IF line.text # "" THEN [acc EXCEPT !.issues = Append(@, line.text)] ELSE acc
    ELSE IF line.head = "RECOMMENDATION:"
    THEN IF line.text # "" THEN [acc EXCEPT !.recommendations = Append(@, line.text)] ELSE acc
    ELSE IF line.head = "OPTIMIZED_ORDER:"
    THEN IF line.text # ""
         THEN [acc EXCEPT !.optimized_stop_order = [some |-> TRUE, v |-> line.ids]]
         ELSE acc
    ELSE IF line.head = "SUMMARY:"
    THEN [acc EXCEPT !.summary = line.text]
    ELSE acc

RECURSIVE ParseLines(_, _)
ParseLines(lines, acc) ==
    IF lines = <<>> THEN acc ELSE ParseLines(Tail(lines), ParseLine(Head(lines), acc))

\* timing_data.get('is_valid', True)
TimingIsValid(p) == IF p.has_is_valid THEN p.is_valid ELSE TRUE

\* ApplyTiming that only adds the issues and keeps the VALID line's verdict
ApplyTiming_LLMWins(acc, results) ==
    IF Loads(results["timing_validation"]) /\ ~TimingIsValid(results["timing_validation"].data)
    THEN [acc EXCEPT !.issues = @ \o results["timing_validation"].data.issues]
    ELSE acc

\* the block reading tool_results['timing_validation']
ApplyTiming(acc, results) ==
    IF Loads(results["timing_validation"]) /\ ~TimingIsValid(results["timing_validation"].data)
    THEN [acc EXCEPT !.is_valid = FALSE,
                     !.issues = @ \o results["timing_validation"].data.issues]
    ELSE acc

\* the block reading tool_results['metrics']
ApplyMetrics(acc, results) ==
    IF Loads(results["metrics"])
    THEN [acc EXCEPT !.estimated_duration_hours =
                         Get(results["metrics"].data, "estimated_time_hours"),
                     !.estimated_distance_km = Get(results["metrics"].data, "distance_km")]
    ELSE acc

\* an Optional[list] is truthy when it is a non-empty list
Truthy(opt) == opt.some /\ opt.v # <<>>

\* the block reading tool_results['optimization']: no payload of
\* optimize_stop_sequence has the key optimized_sequence, so get() gives []
ApplyOptimization(acc, results) ==
    IF Loads(results["optimization"]) /\ ~Truthy(acc.optimized_stop_order)
    THEN [acc EXCEPT !.optimized_stop_order = [some |-> TRUE, v |-> <<>>]]
    ELSE acc

DefaultSummary(acc) ==
    IF acc.summary # "" THEN acc
    ELSE [acc EXCEPT !.summary = IF acc.is_valid THEN "default: route is valid"
                                 ELSE "default: route has issues"]

_parse_validation_result(output, request, results, calls) ==
    [DefaultSummary(
        ApplyOptimization(
            ApplyMetrics(
                ApplyTiming(ParseLines(output, NoResult), results), results), results))
     EXCEPT !.tool_calls = calls]

(***************************************************************************)
(* _build_structured_action_plan (agent_langchain.py)                      *)
(***************************************************************************)
\* _safe_json_loads of tool_results.get(key) gives a dict (not None)
HasPayload(results, key) == results[key].form = "json"

RECURSIVE Insert(_, _)
Insert(stop, sorted) ==
    IF sorted = <<>> THEN <<stop>>
    ELSE IF stop.sequence_number < Head(sorted).sequence_number
         THEN <<stop>> \o sorted
         ELSE <<Head(sorted)>> \o Insert(stop, Tail(sorted))

\* sorted(stops, key=sequence_number), stable
RECURSIVE SortedStops(_)
SortedStops(stops) ==
    IF stops = <<>> THEN <<>>
    ELSE Insert(stops[Len(stops)], SortedStops(SubSeq(stops, 1, Len(stops) - 1)))

StopIdsOf(stops) == [i \in 1..Len(stops) |-> stops[i].stop_id]

\* the stop ids of the request, in resolved order
OrderedStops(request, result) ==
    IF Truthy(result.optimized_stop_order)
    THEN SelectSeq(result.optimized_stop_order.v,
                   LAMBDA id : id \in SeqToSet(StopIdsOf(request.stops)))
    ELSE StopIdsOf(SortedStops(request.stops))

Step(name, stops) == [step |-> name, stops |-> stops]

PathStep(request, result) ==
    IF OrderedStops(request, result) # <<>>
    THEN <<Step("plot_path", OrderedStops(request, result))>> ELSE <<>>

\* MetricsStep with a placeholder line when the payload has no figure
MetricsStep_Placeholder(results) ==
    IF results["metrics"].form # "absent"
    THEN <<Step("review_metrics", <<>>)>> ELSE <<>>

MetricsStep(results) ==
    IF HasPayload(results, "metrics")
       /\ (results["metrics"].data.distance_km # None
           \/ results["metrics"].data.estimated_time_hours # None)
    THEN <<Step("review_metrics", <<>>)>> ELSE <<>>

WeatherStep(results) ==
    IF HasPayload(results, "weather")
       /\ (results["weather"].data.conditions # ""
           \/ results["weather"].data.delivery_impact # "")
    THEN <<Step("brief_weather", <<>>)>> ELSE <<>>

TrafficStep(results) ==
    IF HasPayload(results, "traffic")
       /\ (results["traffic"].data.traffic_level # ""
           \/ results["traffic"].data.delay_factor # None)
    THEN <<Step("traffic_insights", <<>>)>> ELSE <<>>

ScheduleStep(request, results) ==
    IF \/ /\ HasPayload(results, "timing_validation")
          /\ ~TimingIsValid(results["timing_validation"].data)
          /\ results["timing_validation"].data.issues # <<>>
       \/ request.has_constraints
    THEN <<Step("confirm_schedule", <<>>)>> ELSE <<>>

DispatchStep(request, result) ==
    IF OrderedStops(request, result) # <<>> THEN <<Step("dispatch", <<>>)>> ELSE <<>>

_build_structured_action_plan(request, result, results) ==
    PathStep(request, result) \o MetricsStep(results) \o WeatherStep(results)
    \o TrafficStep(results) \o ScheduleStep(request, results) \o DispatchStep(request, result)

(***************************************************************************)
(* Initial state: no request running; the agent_runs table may already     *)
(* hold a run written by an earlier request.                               *)
(***************************************************************************)
EarlierRun == [route_slug |-> "RT-000", summary |-> "earlier", gemini_insight |-> <<>>,
               recommended_actions |-> <<>>, tool_calls |-> <<>>, rag_contexts |-> <<>>,
               used_gemini |-> TRUE]


(***************************************************************************)
(* How a request ends                                                      *)
(***************************************************************************)
\* an exception leaves the handler; the router turns AgentServiceError into
\* 404 and FastAPI turns any other exception into 500
Raise(exc, at) ==
    /\ pc' = "done"
    /\ outcome' = exc
    /\ raised_by' = at
    /\ http_status' = IF exc = "AgentServiceError" THEN 404 ELSE 500

Return ==
    /\ pc' = "done"
    /\ outcome' = "returned"
    /\ raised_by' = "none"
    /\ http_status' = 200

Goto(next) ==
    /\ pc' = next
    /\ UNCHANGED <<outcome, raised_by, http_status>>

(***************************************************************************)
(* POST /ai/validate-route -> run_route_validation_agent                   *)
(***************************************************************************)
StartRoute ==
    /\ pc = "idle"
    /\ kind' = "route"
    /\ route_request' \in RouteRequest
    /\ hasDb' \in BOOLEAN
    /\ llm_configured' \in BOOLEAN
    /\ Goto("r_get_llm")
    /\ UNCHANGED <<timingVars, ragVars, moreVars, rag_contexts, tool_calls, tool_results, invoked, tool_context,
                   llm_called, agent_output, validation_result, context, gemini,
                   run_result, agentRuns>>

\* llm = _get_llm(), before the try block
R_GetLLM ==
    /\ pc = "r_get_llm"
    /\ IF llm_configured THEN Goto("r_retrieve") ELSE Raise("AgentServiceError", "get_llm")
    /\ UNCHANGED <<context, gemini, run_result, timingVars, ragVars, moreVars, kind, route_request, hasDb, llm_configured, rag_contexts, tool_calls,
                   tool_results, invoked, tool_context, llm_called, agent_output,
                   validation_result, agentRuns>>

\* build_retriever(db) and retriever.search(query, k=3), before the try block
R_Retrieve ==
    /\ pc = "r_retrieve"
    /\ \/ /\ ~hasDb
          /\ Goto("r_weather")
          /\ UNCHANGED <<rag_contexts, invoked>>
       \/ /\ hasDb
          /\ \E n \in 0..Min(MaxDocs, Len(Docs)) :
                rag_contexts' = SubSeq(Docs, 1, n)
          /\ invoked' = Append(invoked, "rag_retrieval")
          /\ Goto("r_weather")
       \/ /\ hasDb
          /\ invoked' = Append(invoked, "rag_retrieval")
          /\ Raise("exception", "retrieval")
          /\ UNCHANGED rag_contexts
    /\ UNCHANGED <<context, gemini, run_result, timingVars, ragVars, moreVars, kind, route_request, hasDb, llm_configured, tool_calls, tool_results,
                   tool_context, llm_called, agent_output, validation_result, agentRuns>>

\* one "try: result = tool.invoke(...); tool_calls.append(...);
\* tool_results[key] = result / except: tool_results[key] = message" block
InvokeTool(name, key, payloads) ==
    /\ invoked' = Append(invoked, name)
    /\ \/ \E p \in payloads :
             /\ tool_calls' = Append(tool_calls, [tool |-> name, output |-> p])
             /\ tool_results' = [tool_results EXCEPT ![key] = Json(p)]
       \/ /\ tool_results' = [tool_results EXCEPT ![key] = Message]
          /\ UNCHANGED tool_calls

SkipTool == UNCHANGED <<invoked, tool_calls, tool_results>>

UnchangedByTools ==
    UNCHANGED <<context, gemini, run_result, timingVars, ragVars, moreVars, kind, route_request, hasDb, llm_configured, rag_contexts, tool_context,
                llm_called, agent_output, validation_result, agentRuns>>

\* R_Weather without its except clause: the exception of the invocation
\* reaches the outer except of the handler
R_Weather_NoCatch ==
    /\ pc = "r_weather"
    /\ invoked' = Append(invoked, "check_weather_conditions")
    /\ \/ /\ \E p \in WeatherPayloads :
                /\ tool_calls' = Append(tool_calls, [tool |-> "check_weather_conditions",
                                                    output |-> p])
                /\ tool_results' = [tool_results EXCEPT !["weather"] = Json(p)]
          /\ Goto("r_metrics")
       \/ /\ Raise("AgentServiceError", "check_weather_conditions")
          /\ UNCHANGED <<tool_calls, tool_results>>
    /\ UnchangedByTools

\* Tool 1: check_weather_conditions
R_Weather ==
    /\ pc = "r_weather"
    /\ InvokeTool("check_weather_conditions", "weather", WeatherPayloads)
    /\ Goto("r_metrics")
    /\ UnchangedByTools

\* Tool 2: calculate_route_metrics, if the request has stops
R_Metrics ==
    /\ pc = "r_metrics"
    /\ IF Len(route_request.stops) > 0
       THEN InvokeTool("calculate_route_metrics", "metrics", MetricsPayloads)
       ELSE SkipTool
    /\ Goto("r_timing")
    /\ UnchangedByTools

\* Tool 3: validate_route_timing, if the task includes validation
R_Timing ==
    /\ pc = "r_timing"
    /\ IF route_request.task \in {"validate_route", "validate_and_recommend"}
       THEN InvokeTool("validate_route_timing", "timing_validation", TimingPayloads)
       ELSE SkipTool
    /\ Goto("r_optimize")
    /\ UnchangedByTools

\* Tool 4: optimize_stop_sequence, if the task includes optimization
R_Optimize ==
    /\ pc = "r_optimize"
    /\ IF route_request.task \in {"optimize_route", "validate_and_recommend"}
       THEN InvokeTool("optimize_stop_sequence", "optimization", OptimizationPayloads)
       ELSE SkipTool
    /\ Goto("r_traffic")
    /\ UnchangedByTools

\* Tool 5: check_traffic_conditions
R_Traffic ==
    /\ pc = "r_traffic"
    /\ InvokeTool("check_traffic_conditions", "traffic", TrafficPayloads)
    /\ Goto("r_context")
    /\ UnchangedByTools

\* the sections of tool_context: one per key of tool_results, in insertion
\* order, then the knowledge base when documents were retrieved
Sections(results, contexts) ==
    SelectSeq(ResultKeys, LAMBDA k : results[k].form # "absent")
    \o (IF contexts # <<>> THEN <<"knowledge_base">> ELSE <<>>)

\* "Add RAG context if available", then build tool_context and the prompt
R_Context ==
    /\ pc = "r_context"
    /\ tool_calls' = IF rag_contexts # <<>>
                     THEN Append(tool_calls, [tool |-> "rag_retrieval",
                                              output |-> [document_count |-> Len(rag_contexts)]])
                     ELSE tool_calls
    /\ tool_context' = Sections(tool_results, rag_contexts)
    /\ Goto("r_llm")
    /\ UNCHANGED <<context, gemini, run_result, timingVars, ragVars, moreVars, kind, route_request, hasDb, llm_configured, rag_contexts, tool_results,
                   invoked, llm_called, agent_output, validation_result, agentRuns>>

\* response = chain.invoke(...): any exception is wrapped by the outer except
R_LLM ==
    /\ pc = "r_llm"
    /\ llm_called' = TRUE
    /\ \/ /\ \E reply \in LLMReplies : agent_output' = reply
          /\ Goto("r_parse")
       \/ /\ Raise("AgentServiceError", "llm")
          /\ UNCHANGED agent_output
    /\ UNCHANGED <<context, gemini, run_result, timingVars, ragVars, moreVars, kind, route_request, hasDb, llm_configured, rag_contexts, tool_calls,
                   tool_results, invoked, tool_context, validation_result, agentRuns>>

\* validation_result = _parse_validation_result(...), then its action_plan
RouteResult(output, request, results, calls) ==
    [_parse_validation_result(output, request, results, calls)
     EXCEPT !.action_plan =
        _build_structured_action_plan(
            request, _parse_validation_result(output, request, results, calls), results)]

R_Parse ==
    /\ pc = "r_parse"
    /\ validation_result' = RouteResult(agent_output, route_request, tool_results, tool_calls)
    /\ Goto("r_persist")
    /\ UNCHANGED <<context, gemini, run_result, timingVars, ragVars, moreVars, kind, route_request, hasDb, llm_configured, rag_contexts, tool_calls,
                   tool_results, invoked, tool_context, llm_called, agent_output, agentRuns>>

\* the AgentRun row written by run_route_validation_agent
RouteRun(request, result, output, calls, contexts) ==
    [route_slug |-> request.route_id,
     summary |-> result.summary,
     gemini_insight |-> output,
     recommended_actions |->
        [i \in 1..Len(result.action_plan) |->
            [detail |-> result.action_plan[i].step, priority |-> "high"]]
        \o [i \in 1..Len(result.recommendations) |->
            [detail |-> result.recommendations[i], priority |-> "medium"]],
     tool_calls |-> calls,
     rag_contexts |-> contexts,
     used_gemini |-> TRUE]

\* R_Persist with a row that stays written when the commit raises
R_Persist_RowSurvivesFailure ==
    /\ pc = "r_persist"
    /\ \/ /\ ~hasDb
          /\ Return
          /\ UNCHANGED agentRuns
       \/ /\ hasDb
          /\ agentRuns' = Append(agentRuns, RouteRun(route_request, validation_result,
                                                     agent_output, tool_calls, rag_contexts))
          /\ \/ Return
             \/ Raise("AgentServiceError", "persistence")
    /\ UNCHANGED <<context, gemini, run_result, timingVars, ragVars, moreVars, kind, route_request, hasDb, llm_configured,
                   rag_contexts, tool_calls, tool_results, invoked, tool_context,
                   llm_called, agent_output, validation_result>>

\* "Persist to database" and return; a failing add/commit is wrapped by the
\* outer except into AgentServiceError
R_Persist ==
    /\ pc = "r_persist"
    /\ \/ /\ ~hasDb
          /\ Return
          /\ UNCHANGED agentRuns
       \/ /\ hasDb
          /\ agentRuns' = Append(agentRuns, RouteRun(route_request, validation_result,
                                                     agent_output, tool_calls, rag_contexts))
          /\ Return
       \/ /\ hasDb
          /\ Raise("AgentServiceError", "persistence")
          /\ UNCHANGED agentRuns
    /\ UNCHANGED <<context, gemini, run_result, timingVars, ragVars, moreVars, kind, route_request, hasDb, llm_configured, rag_contexts, tool_calls,
                   tool_results, invoked, tool_context, llm_called, agent_output,
                   validation_result>>

RouteNext ==
    \/ StartRoute \/ R_GetLLM \/ R_Retrieve \/ R_Weather \/ R_Metrics \/ R_Timing
    \/ R_Optimize \/ R_Traffic \/ R_Context \/ R_LLM \/ R_Parse \/ R_Persist

(***************************************************************************)
(* POST /ai/release-readiness -> run_release_readiness_agent (ai-web)      *)
(***************************************************************************)
StartRelease ==
    /\ pc = "idle"
    /\ kind' = "release"
    /\ context' \in AgentRunContext
    /\ hasDb' \in BOOLEAN
    /\ llm_configured' \in BOOLEAN
    /\ Goto("f_tools")
    /\ UNCHANGED <<timingVars, ragVars, moreVars, route_request, rag_contexts, tool_calls, tool_results, invoked,
                   tool_context, llm_called, agent_output, validation_result, gemini,
                   run_result, agentRuns>>

ToolEntry(name) == [tool |-> name, output |-> [error |-> FALSE]]

\* fetch_feature_brief, fetch_launch_window, fetch_support_contacts,
\* list_slo_watch_items and the initial tool_calls list
F_Tools ==
    /\ pc = "f_tools"
    /\ IF context.feature_slug \notin _FEATURE_BRIEFS
       THEN /\ invoked' = Append(invoked, "fetch_feature_brief")
            /\ Raise("AgentServiceError", "unknown_subject")
            /\ UNCHANGED tool_calls
       ELSE IF context.feature_slug \notin _LAUNCH_WINDOWS
       THEN /\ invoked' = invoked \o <<"fetch_feature_brief", "fetch_launch_window">>
            /\ Raise("AgentServiceError", "launch_window")
            /\ UNCHANGED tool_calls
       ELSE /\ invoked' = invoked \o <<"fetch_feature_brief", "fetch_launch_window",
                                       "fetch_support_contacts", "list_slo_watch_items">>
            /\ tool_calls' =
                 <<ToolEntry("fetch_feature_brief"), ToolEntry("fetch_launch_window"),
                   ToolEntry("fetch_support_contacts")>>
                 \o (IF SloItems(context.feature_slug) # <<>>
                     THEN <<ToolEntry("list_slo_watch_items")>> ELSE <<>>)
            /\ Goto("f_retrieve")
    /\ UNCHANGED <<timingVars, ragVars, moreVars, kind, route_request, hasDb, llm_configured, rag_contexts, tool_results,
                   tool_context, llm_called, agent_output, validation_result, context,
                   gemini, run_result, agentRuns>>

\* "RAG: Retrieve relevant documentation using FAISS"
F_Retrieve ==
    /\ pc = "f_retrieve"
    /\ \/ /\ ~hasDb
          /\ Goto("f_gemini")
          /\ UNCHANGED <<rag_contexts, invoked, tool_calls>>
       \/ /\ hasDb
          /\ \E n \in 0..Min(MaxDocs, Len(Docs)) :
                /\ rag_contexts' = SubSeq(Docs, 1, n)
                /\ tool_calls' = IF n > 0
                                 THEN Append(tool_calls, [tool |-> "rag_retrieval",
                                                          output |-> [document_count |-> n]])
                                 ELSE tool_calls
          /\ invoked' = Append(invoked, "rag_retrieval")
          /\ Goto("f_gemini")
       \/ /\ hasDb
          /\ invoked' = Append(invoked, "rag_retrieval")
          /\ Raise("exception", "retrieval")
          /\ UNCHANGED <<rag_contexts, tool_calls>>
    /\ UNCHANGED <<timingVars, ragVars, moreVars, kind, route_request, hasDb, llm_configured, tool_results, tool_context,
                   llm_called, agent_output, validation_result, context, gemini,
                   run_result, agentRuns>>

\* rec_parts[2].strip().lower() and the priority check of a RECOMMENDATION_ line
Priority(token) ==
    IF Lower(token) \in {"high", "medium", "low"} THEN Lower(token) ELSE "medium"

\* one iteration of the line loop of _generate_gemini_insight
GeminiLine(line, acc) ==
    IF line.head = "INSIGHT:"
    THEN [acc EXCEPT !.insight = [some |-> TRUE, v |-> line.parts[1]]]
    ELSE IF line.head \in {"RECOMMENDATION_1:", "RECOMMENDATION_2:"} /\ Len(line.parts) >= 3
    THEN [acc EXCEPT !.recommendations =
              Append(@, [title |-> line.parts[1], detail |-> line.parts[2],
                         priority |-> Priority(line.parts[3]), ai |-> TRUE])]
    ELSE acc

RECURSIVE GeminiLines(_, _)
GeminiLines(lines, acc) ==
    IF lines = <<>> THEN acc ELSE GeminiLines(Tail(lines), GeminiLine(Head(lines), acc))

\* "return insight if insight else None, ai_recommendations"
ParseGemini(reply) ==
    [GeminiLines(reply, NoGemini)
     EXCEPT !.insight = IF @.v # "" THEN @ ELSE [some |-> FALSE, v |-> ""]]

\* _generate_gemini_insight, "used_gemini = gemini_insight is not None" and
\* the gemini_insight_generation trace entry
F_Gemini ==
    /\ pc = "f_gemini"
    /\ \/ /\ ~llm_configured
          /\ gemini' = NoGemini
          /\ UNCHANGED <<llm_called, agent_output, invoked>>
       \/ /\ llm_configured
          /\ llm_called' = TRUE
          /\ invoked' = Append(invoked, "gemini_insight_generation")
          /\ \/ \E reply \in GeminiReplies :
                   /\ agent_output' = reply
                   /\ gemini' = ParseGemini(reply)
             \/ /\ gemini' = NoGemini
                /\ UNCHANGED agent_output
    /\ tool_calls' = IF gemini'.insight.some
                     THEN Append(tool_calls, ToolEntry("gemini_insight_generation"))
                     ELSE tool_calls
    /\ Goto("f_assemble")
    /\ UNCHANGED <<timingVars, ragVars, moreVars, kind, route_request, hasDb, llm_configured, rag_contexts, tool_results,
                   tool_context, validation_result, context, run_result, agentRuns>>

Rec(title, priority) == [title |-> title, detail |-> title, priority |-> priority, ai |-> FALSE]

\* "Build deterministic recommendations" and "Add AI-generated recommendations"
RecommendedActions(ctx, ai_recommendations) ==
    <<Rec("Confirm launch communications", "high"),
      Rec("Validate operational readiness", "high")>>
    \o (IF ctx.include_risks /\ SloItems(ctx.feature_slug) # <<>>
        THEN <<Rec("Mitigate top risk", "high")>> ELSE <<>>)
    \o (IF ContactCount(ctx.audience_role) > 1
        THEN <<Rec("Broadcast stakeholder update", "medium")>> ELSE <<>>)
    \o ai_recommendations

\* plan, summary, recommendations and the AgentRunResult
F_Assemble ==
    /\ pc = "f_assemble"
    /\ run_result' = [summary |-> context.feature_slug,
                      gemini_insight |-> gemini.insight,
                      recommended_actions |-> RecommendedActions(context, gemini.recommendations),
                      tool_calls |-> tool_calls,
                      rag_contexts |-> rag_contexts,
                      used_gemini |-> gemini.insight.some]
    /\ Goto("f_persist")
    /\ UNCHANGED <<timingVars, ragVars, moreVars, kind, route_request, hasDb, llm_configured, rag_contexts, tool_calls,
                   tool_results, invoked, tool_context, llm_called, agent_output,
                   validation_result, context, gemini, agentRuns>>

\* the AgentRun row written by run_release_readiness_agent
ReleaseRun(ctx, result) ==
    [route_slug |-> ctx.feature_slug,
     summary |-> result.summary,
     gemini_insight |-> result.gemini_insight,
     recommended_actions |-> result.recommended_actions,
     tool_calls |-> result.tool_calls,
     rag_contexts |-> result.rag_contexts,
     used_gemini |-> result.used_gemini]

\* "Persist agent run to database for auditing": a failing add/commit is
\* not caught and leaves the handler as it is
F_Persist ==
    /\ pc = "f_persist"
    /\ \/ /\ ~hasDb
          /\ Return
          /\ UNCHANGED agentRuns
       \/ /\ hasDb
          /\ agentRuns' = Append(agentRuns, ReleaseRun(context, run_result))
          /\ Return
       \/ /\ hasDb
          /\ Raise("exception", "persistence")
          /\ UNCHANGED agentRuns
    /\ UNCHANGED <<timingVars, ragVars, moreVars, kind, route_request, hasDb, llm_configured, rag_contexts, tool_calls,
                   tool_results, invoked, tool_context, llm_called, agent_output,
                   validation_result, context, gemini, run_result>>

ReleaseNext ==
    \/ StartRelease \/ F_Tools \/ F_Retrieve \/ F_Gemini \/ F_Assemble \/ F_Persist

(***************************************************************************)
(* POST /chat/ -> run_chat (ai-web chatbot.py)                             *)
(***************************************************************************)
ChatReplies == {<<>>, <<Line("Use", "the course notes")>>}

StartChat ==
    /\ pc = "idle"
    /\ kind' = "chat"
    /\ hasDb' = TRUE
    /\ llm_configured' \in BOOLEAN
    /\ Goto("c_retrieve")
    /\ UNCHANGED <<timingVars, ragVars, moreVars, route_request, rag_contexts, tool_calls, tool_results, invoked,
                   tool_context, llm_called, agent_output, validation_result, context,
                   gemini, run_result, agentRuns>>

\* retriever = build_retriever(db); contexts = retriever.search(message, k=4)
C_Retrieve ==
    /\ pc = "c_retrieve"
    /\ invoked' = Append(invoked, "rag_retrieval")
    /\ \/ /\ \E n \in 0..Min(MaxDocs, Len(Docs)) : rag_contexts' = SubSeq(Docs, 1, n)
          /\ Goto("c_answer")
       \/ /\ Raise("exception", "retrieval")
          /\ UNCHANGED rag_contexts
    /\ UNCHANGED <<timingVars, ragVars, moreVars, kind, route_request, hasDb, llm_configured, tool_calls, tool_results,
                   tool_context, llm_called, agent_output, validation_result, context,
                   gemini, run_result, agentRuns>>

\* the ChatResult for what the provider step left in answer and used_gemini;
\* an empty answer is replaced by the offline preview
ChatResult(answer_from, used, contexts) ==
    [answer_from |-> IF answer_from = "empty" THEN "offline_preview" ELSE answer_from,
     rag_contexts |-> contexts,
     used_gemini |-> used]

\* the provider call, the fallback answer and the ChatResult
C_Answer ==
    /\ pc = "c_answer"
    /\ \/ /\ ~llm_configured
          /\ run_result' = ChatResult("empty", FALSE, rag_contexts)
          /\ UNCHANGED <<llm_called, agent_output>>
       \/ /\ llm_configured
          /\ llm_called' = TRUE
          /\ \/ \E reply \in ChatReplies :
                   /\ agent_output' = reply
                   /\ run_result' = ChatResult(IF reply = <<>> THEN "empty" ELSE "llm",
                                               TRUE, rag_contexts)
             \/ /\ run_result' = ChatResult("failure_notice", FALSE, rag_contexts)
                /\ UNCHANGED agent_output
    /\ Return
    /\ UNCHANGED <<timingVars, ragVars, moreVars, kind, route_request, hasDb, llm_configured, rag_contexts, tool_calls,
                   tool_results, invoked, tool_context, validation_result, context,
                   gemini, agentRuns>>

ChatNext == StartChat \/ C_Retrieve \/ C_Answer

(***************************************************************************)
(* _parse_validation_result of agent_langchain_old.py, applied to the      *)
(* tool results of the current tools                                       *)
(***************************************************************************)
ApplyMetricsOld(acc, results) ==
    IF Loads(results["metrics"])
    THEN [acc EXCEPT !.estimated_duration_hours =
                         Get(results["metrics"].data, "driving_time_hours"),
                     !.estimated_distance_km = Get(results["metrics"].data, "distance_km")]
    ELSE acc

_parse_validation_result_old(output, request, results) ==
    DefaultSummary(
        ApplyOptimization(
            ApplyMetricsOld(
                ApplyTiming(ParseLines(output, NoResult), results), results), results))

\* the arguments of a call of the old parser
StartParseOld ==
    /\ pc = "idle"
    /\ kind' = "parse_old"
    /\ route_request' \in {r \in RouteRequest : r.task = "validate_and_recommend"}
    /\ agent_output' \in LLMReplies
    /\ \E m \in {Json(p) : p \in MetricsPayloads} \cup {Absent, Message} :
          tool_results' = [NoResults EXCEPT !["metrics"] = m]
    /\ Goto("p_parse")
    /\ UNCHANGED <<timingVars, ragVars, moreVars, hasDb, llm_configured, rag_contexts, tool_calls, invoked, tool_context,
                   llm_called, validation_result, context, gemini, run_result, agentRuns>>

P_Parse ==
    /\ pc = "p_parse"
    /\ validation_result' = _parse_validation_result_old(agent_output, route_request,
                                                         tool_results)
    /\ Return
    /\ UNCHANGED <<timingVars, ragVars, moreVars, kind, route_request, hasDb, llm_configured, rag_contexts, tool_calls,
                   tool_results, invoked, tool_context, llm_called, agent_output, context,
                   gemini, run_result, agentRuns>>

OldParserNext == StartParseOld \/ P_Parse

(***************************************************************************)
(* validate_route_timing (agent_tools.py), called on its own with a        *)
(* route_request dict.  Times of day ("HH:MM", zero padded) are minutes    *)
(* after midnight; a datetime is minutes after midnight of the start day.  *)
(***************************************************************************)
\* planned_start_time values: 08:50, 09:25, 23:50; None is a string that
\* datetime.fromisoformat rejects
StartTimes == {530, 565, 1430}

\* time_window_start / time_window_end of a stop: None or "08:00" / "09:00"
WindowStarts == {None, 480}
WindowEnds == {None, 540}

TimedStops ==
    UNION {[1..n -> [time_window_start : WindowStarts, time_window_end : WindowEnds]]
           : n \in 0..MaxStops}

\* route_request["constraints"]: key missing, null (RouteRequest.constraints
\* is None in model_dump()), or an OperationalConstraints dict
TimingConstraints ==
    {[form |-> "missing", driver_shift_end |-> None, max_route_duration_hours |-> None],
     [form |-> "null", driver_shift_end |-> None, max_route_duration_hours |-> None]}
    \cup [form : {"dict"}, driver_shift_end : {None, 540},
          max_route_duration_hours : {None, 1}]

TimingRequests ==
    [planned_start_time : StartTimes \cup {None}, stops : TimedStops,
     constraints : TimingConstraints]

NoTimingRequest ==
    [planned_start_time |-> None, stops |-> <<>>,
     constraints |-> [form |-> "missing", driver_shift_end |-> None,
                      max_route_duration_hours |-> None]]

NoTimingResult ==
    [error |-> FALSE, has_is_valid |-> FALSE, is_valid |-> FALSE, issues |-> <<>>,
     warnings |-> <<>>, total_duration_hours |-> None]

\* current_time.strftime("%H:%M"): the date is dropped
Strftime(t) == t % 1440

\* current_time when the loop reaches stop idx (1-based): 15 minutes of
\* travel between stops and 5 minutes of service at each
CurrentTime(start_time, idx) == start_time + 20 * (idx - 1) + 5

\* entries of issues / warnings: the stop id the string starts with ("" for
\* a route-level issue) and what it reports
Finding(stop_id, what) == [stop_id |-> stop_id, what |-> what]

\* the body of the loop for stop idx: what it appends to issues and warnings
StopIssues(stops, start_time, idx) ==
    LET stop == stops[idx]
        stop_time_str == Strftime(CurrentTime(start_time, idx))
    IN  IF stop.time_window_start # None /\ stop.time_window_end # None
           /\ ~(stop_time_str < stop.time_window_start)
           /\ stop_time_str > stop.time_window_end
        THEN <<Finding(StopIds[idx], "Late arrival")>> ELSE <<>>

StopWarnings(stops, start_time, idx) ==
    LET stop == stops[idx]
        stop_time_str == Strftime(CurrentTime(start_time, idx))
    IN  IF stop.time_window_start # None /\ stop.time_window_end # None
           /\ stop_time_str < stop.time_window_start
        THEN <<Finding(StopIds[idx], "Early arrival")>> ELSE <<>>

RECURSIVE LoopIssues(_, _, _)
LoopIssues(stops, start_time, n) ==
    IF n = 0 THEN <<>>
    ELSE LoopIssues(stops, start_time, n - 1) \o StopIssues(stops, start_time, n)

RECURSIVE LoopWarnings(_, _, _)
LoopWarnings(stops, start_time, n) ==
    IF n = 0 THEN <<>>
    ELSE LoopWarnings(stops, start_time, n - 1) \o StopWarnings(stops, start_time, n)

\* current_time after the loop
EndTime(stops, start_time) ==
    IF stops = <<>> THEN start_time ELSE CurrentTime(start_time, Len(stops))

\* the driver_shift_end and max_route_duration_hours checks
RouteIssues(request, start_time) ==
    LET end_time == EndTime(request.stops, start_time)
        c == request.constraints
    IN  (IF c.driver_shift_end # None /\ Strftime(end_time) > c.driver_shift_end
         THEN <<Finding("", "Route exceeds driver shift end")>> ELSE <<>>)
        \o (IF c.max_route_duration_hours # None /\ c.max_route_duration_hours # 0
               /\ end_time - start_time > 60 * c.max_route_duration_hours
            THEN <<Finding("", "Duration exceeds maximum")>> ELSE <<>>)

\* round(actual_duration, 2), in hundredths of an hour
TotalDurationHours(minutes) == (minutes * 100 + 30) \div 60

\* the whole function for a start_time: constraints.get(...) raises on a
\* null constraints value and the outer except returns the error marker
validate_route_timing(request, start_time) ==
    IF request.constraints.form = "null"
    THEN [NoTimingResult EXCEPT !.error = TRUE]
    ELSE LET issues == LoopIssues(request.stops, start_time, Len(request.stops))
                       \o RouteIssues(request, start_time)
         IN  [error |-> FALSE, has_is_valid |-> TRUE, is_valid |-> (issues = <<>>),
              issues |-> issues,
              warnings |-> LoopWarnings(request.stops, start_time, Len(request.stops)),
              total_duration_hours |->
                  TotalDurationHours(EndTime(request.stops, start_time) - start_time)]

StartTiming ==
    /\ pc = "idle"
    /\ kind' = "timing"
    /\ timing_request' \in TimingRequests
    /\ Goto("t_validate")
    /\ UNCHANGED <<pipelineVars, moreVars, ragVars, timing_arrivals, timing_result>>

\* validate_route_timing.invoke: start_time is the parsed planned_start_time,
\* or datetime.now() when parsing fails
T_Validate ==
    /\ pc = "t_validate"
    /\ \E now \in StartTimes :
          LET start_time == IF timing_request.planned_start_time # None
                            THEN timing_request.planned_start_time ELSE now
          IN  /\ timing_arrivals' = [i \in 1..Len(timing_request.stops)
                                       |-> CurrentTime(start_time, i)]
              /\ timing_result' = validate_route_timing(timing_request, start_time)
    /\ Return
    /\ UNCHANGED <<pipelineVars, moreVars, ragVars, kind, timing_request>>

TimingNext == StartTiming \/ T_Validate

(***************************************************************************)
(* app/services/rag.py of both backends: embed_text, ensure_embeddings,    *)
(* build_retriever and Retriever.search over the document_chunks table.    *)
(* A text is its list of words; a vector has Buckets components, each a    *)
(* fixed-point number with Scale units to 1.0.                             *)
(***************************************************************************)
MaxChunks == 2
MaxCalls == 2
Buckets == 2
MaxRequests == 4
MaxFailures == 2
MaxFlaky == 6
MaxSentences == 2
MaxIngests == 2
MaxShared == 2

Scale == 10

Texts == {<<>>, <<"Rain">>, <<"rain", "sun">>}

\* _tokenize: re.findall(r"\b\w+\b", text.lower())
_tokenize(text) == [i \in 1..Len(text) |-> Lower(text[i])]

\* PYTHONHASHSEED values a worker process may start with (str hashes are
\* randomised per process)
HashSeeds == {0, 1}

\* hash(token) in a process started with the given seed
PyHash(token, seed) ==
    IF token = "rain" THEN (IF seed = 0 THEN 4 ELSE 7)
    ELSE (IF seed = 0 THEN 7 ELSE 9)

\* SentenceTransformer.encode is a fixed function of the text; its
\* component for a token does not depend on the process
ModelSlot(token) == IF token = "rain" THEN 0 ELSE 1

Slot(rag, token, seed) ==
    IF rag = "ai-web" THEN PyHash(token, seed) % Buckets ELSE ModelSlot(token) % Buckets

ZeroVector == [b \in 0..(Buckets - 1) |-> 0]

RECURSIVE SumSquares(_, _)
SumSquares(v, b) == IF b < 0 THEN 0 ELSE v[b] * v[b] + SumSquares(v, b - 1)

\* floor of the square root
ISqrt(n) == CHOOSE r \in 0..n : r * r <= n /\ (r + 1) * (r + 1) > n

\* np.linalg.norm(vector), in Scale units
Norm(v) == ISqrt(SumSquares(v, Buckets - 1) * Scale * Scale)

\* embed_text: token counts per slot, divided by the norm when it is not 0
embed_text(rag, text, seed) ==
    LET tokens == _tokenize(text)
        vector == [b \in 0..(Buckets - 1) |->
                     Cardinality({i \in 1..Len(tokens) : Slot(rag, tokens[i], seed) = b})]
        norm == Norm(vector)
    IN  IF norm # 0
        THEN [b \in 0..(Buckets - 1) |-> (vector[b] * Scale * Scale) \div norm]
        ELSE ZeroVector

\* DocumentChunk.embedding: NULL / empty list, or a stored vector
NoEmbedding == [has |-> FALSE, vec |-> ZeroVector]
Embedding(vec) == [has |-> TRUE, vec |-> vec]

DocumentChunk ==
    [rag \in {"ai-web", "logistics"} |->
        UNION {[content : {text}, source : {"guide.md"},
                embedding : {NoEmbedding}
                            \cup {Embedding(embed_text(rag, text, s)) : s \in HashSeeds}]
               : text \in Texts}]

\* the chunk in row i of document_chunks: any chunk in the first row, a
\* chunk of the guide's next passage after it
StoredChunks(rag, i) ==
    IF i = 1 THEN DocumentChunk[rag]
    ELSE {c \in DocumentChunk[rag] :
             c.content = (IF i % 2 = 0 THEN <<"rain", "sun">> ELSE <<"Rain">>)}

\* contents of document_chunks left by earlier ingestions
ChunkStores(rag) ==
    UNION {{store \in [1..n -> DocumentChunk[rag]] :
               \A i \in 1..n : store[i] \in StoredChunks(rag, i)} : n \in 0..MaxChunks}

NoRetrieval == [called |-> FALSE, query |-> <<>>, k |-> 0, n |-> 0, results |-> <<>>,
                embed_calls |-> 0]

\* values of k the callers of search may pass
Ks == {-1, 0, 1, 3}

\* WithEmbeddings without the "if not chunk.embedding" test: every chunk is
\* embedded again
WithEmbeddings_Recomputed(rag, store, seed) ==
    [i \in 1..Len(store) |->
        [store[i] EXCEPT !.embedding = Embedding(embed_text(rag, store[i].content, seed))]]

\* the chunk list after the loop of ensure_embeddings
WithEmbeddings(rag, store, seed) ==
    [i \in 1..Len(store) |->
        IF ~store[i].embedding.has
        THEN [store[i] EXCEPT !.embedding = Embedding(embed_text(rag, store[i].content, seed))]
        ELSE store[i]]

\* number of chunks the loop embeds ("updated" is true when it is not 0)
MissingEmbeddings(store) == Cardinality({i \in 1..Len(store) : ~store[i].embedding.has})

\* IndexFlatL2: squared L2 distance
RECURSIVE L2(_, _, _)
L2(x, y, b) == IF b < 0 THEN 0 ELSE (x[b] - y[b]) * (x[b] - y[b]) + L2(x, y, b - 1)

Distance(x, y) == L2(x, y, Buckets - 1)

\* NearestRows without the ordering: any kk distinct rows, in any order
NearestRows_AnyOrder(list, query_vector, kk) ==
    {idx \in [1..kk -> 1..Len(list)] : \A i, j \in 1..kk : i < j => idx[i] # idx[j]}

\* index.search(query_vector, kk): the kk nearest rows, nearest first; rows
\* at equal distance come in an order the index chooses
NearestRows(list, query_vector, kk) ==
    LET distances == [m \in 1..Len(list) |->
                         Distance(query_vector, list[m].embedding.vec)]
    IN  {idx \in [1..kk -> 1..Len(list)] :
            /\ \A i, j \in 1..kk : i < j => idx[i] # idx[j]
            /\ \A i, j \in 1..kk : i < j => distances[idx[i]] <= distances[idx[j]]
            /\ \A m \in 1..Len(list) :
                  (\A i \in 1..kk : idx[i] # m)
                  => \A i \in 1..kk : distances[idx[i]] <= distances[m]}

RetrievedContext(list, query_vector, idx) ==
    [i \in 1..Len(idx) |->
        [content |-> list[idx[i]].content, source |-> list[idx[i]].source,
         score |-> Distance(query_vector, list[idx[i]].embedding.vec)]]

StartRag ==
    /\ pc = "idle"
    /\ kind' = "rag"
    /\ \E rag \in {"ai-web", "logistics"} :
          /\ backend' = rag
          /\ chunks' \in ChunkStores(rag)
    /\ hash_seed' \in HashSeeds
    /\ Goto("g_serve")
    /\ UNCHANGED <<pipelineVars, moreVars, timingVars, db_commits, embed_calls, ensure_calls, retrieval>>

\* the worker process is restarted: str hashes get a new seed
G_Restart ==
    /\ pc = "g_serve"
    /\ hash_seed' \in HashSeeds \ {hash_seed}
    /\ Goto("g_serve")
    /\ UNCHANGED <<pipelineVars, moreVars, timingVars, kind, backend, chunks, db_commits, embed_calls,
                   ensure_calls, retrieval>>

\* ensure_embeddings(db) called on its own; db.commit() may raise, and then
\* nothing is persisted
G_EnsureEmbeddings ==
    /\ pc = "g_serve"
    /\ ensure_calls < MaxCalls
    /\ embed_calls' = embed_calls + MissingEmbeddings(chunks)
    /\ \/ /\ MissingEmbeddings(chunks) # 0
          /\ chunks' = WithEmbeddings(backend, chunks, hash_seed)
          /\ db_commits' = db_commits + 1
          /\ ensure_calls' = ensure_calls + 1
          /\ Goto("g_serve")
       \/ /\ MissingEmbeddings(chunks) # 0
          /\ Raise("exception", "commit")
          /\ UNCHANGED <<chunks, db_commits, ensure_calls>>
       \/ /\ MissingEmbeddings(chunks) = 0
          /\ ensure_calls' = ensure_calls + 1
          /\ Goto("g_serve")
          /\ UNCHANGED <<chunks, db_commits>>
    /\ UNCHANGED <<pipelineVars, moreVars, timingVars, kind, backend, hash_seed, retrieval>>

\* Retriever.search without the "if not self.index or not self.chunks" guard
search_NoEmptyGuard(list, query_vector, k) ==
    LET kk == Min(k, Len(list))
    IN  IF kk >= 1
        THEN {[raised |-> FALSE, embedded |-> 1,
               results |-> RetrievedContext(list, query_vector, idx)]
              : idx \in NearestRows(list, query_vector, kk)}
        ELSE {[raised |-> TRUE, embedded |-> 1, results |-> <<>>]}
             \cup (IF kk = 0 THEN {[raised |-> FALSE, embedded |-> 1, results |-> <<>>]}
                   ELSE {})

\* Retriever.search(query, k) over the chunk list of the retriever: what it
\* can give.  With no chunks it returns [] at once; otherwise it embeds the
\* query and asks the index for min(k, len(chunks)) rows, which the index
\* refuses (raising) for a negative count and, depending on its version,
\* for 0
search(list, query_vector, k) ==
    LET kk == Min(k, Len(list))
    IN  IF list = <<>>
        THEN {[raised |-> FALSE, embedded |-> 0, results |-> <<>>]}
        ELSE IF kk >= 1
        THEN {[raised |-> FALSE, embedded |-> 1,
               results |-> RetrievedContext(list, query_vector, idx)]
              : idx \in NearestRows(list, query_vector, kk)}
        ELSE {[raised |-> TRUE, embedded |-> 1, results |-> <<>>]}
             \cup (IF kk = 0 THEN {[raised |-> FALSE, embedded |-> 1, results |-> <<>>]}
                   ELSE {})

\* build_retriever(db).search(query, k): ensure_embeddings (whose commit may
\* raise), then the empty retriever or a Retriever over the chunks, then
\* search
G_Search ==
    /\ pc = "g_serve"
    /\ \E query \in Texts, k \in Ks :
          LET list == WithEmbeddings(backend, chunks, hash_seed)
              query_vector == embed_text(backend, query, hash_seed)
          IN  \/ /\ MissingEmbeddings(chunks) # 0
                 /\ Raise("exception", "commit")
                 /\ embed_calls' = embed_calls + MissingEmbeddings(chunks)
                 /\ UNCHANGED <<chunks, db_commits, ensure_calls, retrieval>>
              \/ /\ chunks' = list
                 /\ db_commits' = db_commits + (IF MissingEmbeddings(chunks) # 0 THEN 1 ELSE 0)
                 /\ ensure_calls' = ensure_calls + 1
                 /\ \E found \in search(list, query_vector, k) :
                       /\ retrieval' = [called |-> TRUE, query |-> query, k |-> k,
                                        n |-> Len(list), results |-> found.results,
                                        embed_calls |-> found.embedded]
                       /\ embed_calls' = embed_calls + MissingEmbeddings(chunks)
                                         + found.embedded
                       /\ IF found.raised THEN Raise("exception", "index.search")
                          ELSE Return
    /\ UNCHANGED <<pipelineVars, moreVars, timingVars, kind, backend, hash_seed>>

RagNext == StartRag \/ G_Restart \/ G_EnsureEmbeddings \/ G_Search

(***************************************************************************)
(* calculate_route_metrics (agent_tools.py), called on its own.  What a    *)
(* provider does is the environment's choice: MapBox and Google Maps may   *)
(* be unconfigured, raise (geocoding, HTTP, malformed answer), answer      *)
(* without a route, or answer with one; the geopy estimate may raise, find *)
(* no coordinates for a location, or give the distance.                    *)
(***************************************************************************)
MapBoxOutcomes == {"unconfigured", "raises", "no_route", "route"}
GoogleOutcomes == {"unconfigured", "raises", "no_route", "route"}
GeopyOutcomes == {"raises", "not_found", "estimate"}

\* the dict the tool serialises: the error marker or the metrics
MetricsError == [error |-> TRUE, data_source |-> "", distance_km |-> None]
Metrics(source, km) == [error |-> FALSE, data_source |-> source, distance_km |-> km]

NoMetricsCall == [has_stops |-> FALSE, tried |-> <<>>, result |-> MetricsError]

Tried(provider, result) == [provider |-> provider, outcome |-> result]

StartMetrics ==
    /\ pc = "idle"
    /\ kind' = "metrics"
    /\ \E has_stops \in BOOLEAN :
          metrics_call' = [NoMetricsCall EXCEPT !.has_stops = has_stops]
    /\ Goto("m_mapbox")
    /\ UNCHANGED <<notToolVars, weather_call>>

\* "if not stops", then the MapBox Directions block: it returns the metrics
\* only when the answer has routes; otherwise control leaves the block
M_MapBox ==
    /\ pc = "m_mapbox"
    /\ \/ /\ ~metrics_call.has_stops
          /\ UNCHANGED metrics_call
          /\ Return
       \/ /\ metrics_call.has_stops
          /\ \E o \in MapBoxOutcomes :
                IF o = "route"
                THEN /\ metrics_call' =
                            [metrics_call EXCEPT !.tried = Append(@, Tried("mapbox", o)),
                                                 !.result = Metrics("mapbox_real_traffic", 12)]
                     /\ Return
                ELSE /\ metrics_call' =
                            [metrics_call EXCEPT !.tried = Append(@, Tried("mapbox", o))]
                     /\ Goto("m_google")
    /\ UNCHANGED <<notToolVars, kind, weather_call>>

\* the Google Maps Distance Matrix block: a leg whose element status is not
\* OK adds nothing to the totals, and the block returns the totals
M_Google ==
    /\ pc = "m_google"
    /\ \E o \in GoogleOutcomes :
          IF o \in {"route", "no_route"}
          THEN /\ metrics_call' =
                      [metrics_call EXCEPT
                          !.tried = Append(@, Tried("google", o)),
                          !.result = Metrics("google_maps_real_traffic (fallback)",
                                             IF o = "route" THEN 12 ELSE 0)]
               /\ Return
          ELSE /\ metrics_call' =
                      [metrics_call EXCEPT !.tried = Append(@, Tried("google", o))]
               /\ Goto("m_geopy")
    /\ UNCHANGED <<notToolVars, kind, weather_call>>

\* the geopy block: a location the geocoder does not find adds nothing to
\* the distance; an exception reaches the outer except, which returns the
\* error marker
M_Geopy ==
    /\ pc = "m_geopy"
    /\ \E o \in GeopyOutcomes :
          metrics_call' =
              [metrics_call EXCEPT
                  !.tried = Append(@, Tried("geopy", o)),
                  !.result = IF o = "raises" THEN MetricsError
                             ELSE Metrics("geopy_estimated", IF o = "estimate" THEN 12 ELSE 0)]
    /\ Return
    /\ UNCHANGED <<notToolVars, kind, weather_call>>

MetricsNext == StartMetrics \/ M_MapBox \/ M_Google \/ M_Geopy

(***************************************************************************)
(* check_weather_conditions (agent_tools.py), called on its own            *)
(***************************************************************************)
\* what requests.get + raise_for_status can do: answer, raise Timeout,
\* raise another RequestException, raise something else
HttpOutcomes == {"ok", "timeout", "request_error", "other_error"}

WeatherError == [error |-> TRUE, conditions |-> "", delivery_impact |-> ""]

\* float(): the numerals a location can hold, in hundredths of a degree
Floats == ("40.71" :> 4071) @@ ("-74.01" :> -7401)

\* location strings, cut into words, numerals and commas
WeatherLocations ==
    {<<"San Francisco">>, <<"Boston">>, <<"boston">>, <<"Atlantis">>,
     <<"40.71", ",", "-74.01">>, <<"Depot", "40.71", ",", "-74.01">>,
     <<"north", ",", "south">>}

NoCoordinates == [found |-> FALSE, lat |-> 0, lon |-> 0]

\* COORD_PATTERN.search(text): the first "number , number" in the text
_extract_coordinates_from_text(text) ==
    LET matches == {i \in 1..(Len(text) - 2) :
                       /\ text[i] \in DOMAIN Floats
                       /\ text[i + 1] = ","
                       /\ text[i + 2] \in DOMAIN Floats}
    IN  IF matches = {} THEN NoCoordinates
        ELSE LET i == CHOOSE m \in matches : \A n \in matches : m <= n
             IN  [found |-> TRUE, lat |-> Floats[text[i]], lon |-> Floats[text[i + 2]]]

\* city_coords (two of its ten entries) and the default it falls back to
city_coords == (<<"san francisco">> :> <<3777, -12241>>) @@ (<<"boston">> :> <<4236, -7106>>)

DefaultCoordinates == <<3777, -12241>>

\* lat, lon of check_weather_conditions: coordinates found in the text, else
\* the two sides of the first comma passed to float(), else the city table
WeatherCoordinates(location) ==
    LET coord_from_text == _extract_coordinates_from_text(location)
        commas == {i \in 1..Len(location) : location[i] = ","}
    IN  IF coord_from_text.found THEN <<coord_from_text.lat, coord_from_text.lon>>
        ELSE IF commas # {}
        THEN LET at == CHOOSE m \in commas : \A n \in commas : m <= n
                 lat_str == SubSeq(location, 1, at - 1)
                 lon_str == SubSeq(location, at + 1, Len(location))
             IN  IF /\ Len(lat_str) = 1 /\ lat_str[1] \in DOMAIN Floats
                    /\ Len(lon_str) = 1 /\ lon_str[1] \in DOMAIN Floats
                 THEN <<Floats[lat_str[1]], Floats[lon_str[1]]>>
                 ELSE DefaultCoordinates
        ELSE LET location_lower == [i \in 1..Len(location) |-> Lower(location[i])]
             IN  IF location_lower \in DOMAIN city_coords THEN city_coords[location_lower]
                 ELSE DefaultCoordinates

NoWeatherCall ==
    [location |-> <<>>, coordinates |-> DefaultCoordinates, requests |-> <<>>,
     result |-> WeatherError]

HttpRequest(timeout, result) == [timeout |-> timeout, outcome |-> result]

\* the call and the coordinates it resolves before the first request
StartWeather ==
    /\ pc = "idle"
    /\ kind' = "weather"
    /\ \E location \in WeatherLocations :
          weather_call' = [weather_call EXCEPT !.location = location,
                                               !.coordinates = WeatherCoordinates(location)]
    /\ Goto("w_first")
    /\ UNCHANGED <<notToolVars, metrics_call>>

\* W_First retrying after any failed request
W_First_RetryOnAnyError ==
    /\ pc = "w_first"
    /\ \E o \in HttpOutcomes :
          /\ weather_call' = [weather_call EXCEPT !.requests = Append(@, HttpRequest(5, o))]
          /\ IF o = "ok" THEN Goto("w_parse")
             ELSE IF o \in {"timeout", "request_error"} THEN Goto("w_second")
             ELSE Return
    /\ UNCHANGED <<notToolVars, kind, metrics_call>>

\* first iteration of "for timeout in (5, 10)"
W_First ==
    /\ pc = "w_first"
    /\ \E o \in HttpOutcomes :
          /\ weather_call' = [weather_call EXCEPT !.requests = Append(@, HttpRequest(5, o))]
          /\ IF o = "ok" THEN Goto("w_parse")
             ELSE IF o = "timeout" THEN Goto("w_second")
             ELSE Return
    /\ UNCHANGED <<notToolVars, kind, metrics_call>>

\* second iteration, reached only after a Timeout
W_Second ==
    /\ pc = "w_second"
    /\ \E o \in HttpOutcomes :
          /\ weather_call' = [weather_call EXCEPT !.requests = Append(@, HttpRequest(10, o))]
          /\ IF o = "ok" THEN Goto("w_parse") ELSE Return
    /\ UNCHANGED <<notToolVars, kind, metrics_call>>

\* response.json() and building the payload; an exception there reaches the
\* outer except, which returns the error marker
W_Parse ==
    /\ pc = "w_parse"
    /\ \E p \in WeatherPayloads : weather_call' = [weather_call EXCEPT !.result = p]
    /\ Return
    /\ UNCHANGED <<notToolVars, kind, metrics_call>>

WeatherNext == StartWeather \/ W_First \/ W_Second \/ W_Parse

(***************************************************************************)
(* Echo endpoints.  Both applications keep a table echo_attempts with the  *)
(* same columns; a row is [id, client_key, failures, attempts, message].   *)
(***************************************************************************)
EchoAttempt(id, client_key, failures, attempts, message) ==
    [id |-> id, client_key |-> client_key, failures |-> failures,
     attempts |-> attempts, message |-> message]

\* the answer of an echo endpoint: status 200 with the attempts it reports,
\* 503 for the simulated failure, 500 for any other exception
EchoResponse(client_key, message, status, attempts) ==
    [client_key |-> client_key, message |-> message, status |-> status,
     attempts |-> attempts]

NoResponse == EchoResponse("", "", 0, 0)

EchoMessages == {"hi", "yo"}

\* logistics: payload.client_key is optional; "" is the key left out (None)
\* or sent empty, "anonymous" the default sent in full
EchoIn == [message : EchoMessages, client_key : {"", "anonymous", "c1"}]

\* payload.client_key or "anonymous"
ClientKey(payload) ==
    IF payload.client_key = "" THEN "anonymous" ELSE payload.client_key

EchoPairs == {"anonymous", "c1"} \X EchoMessages

NoEchoLog ==
    [inserts |-> 0, served |-> 0, last |-> NoResponse,
     count |-> [pair \in EchoPairs |-> 0],
     failures |-> 0, failed |-> 0, succeeded |-> 0, crashed |-> 0,
     since_success |-> 0, before_first_success |-> None, overlapped |-> FALSE]

(***************************************************************************)
(* logistics: POST /echo and DELETE /echo/reset/{client_key}               *)
(***************************************************************************)
StartEcho ==
    /\ pc = "idle"
    /\ kind' = "echo"
    /\ Goto("e_open")
    /\ UNCHANGED <<notEchoVars, echoVars>>

\* E_Echo failing while attempts < failures only
E_Echo_StrictLess ==
    /\ pc = "e_open"
    /\ echo_log.served < MaxRequests
    /\ \E payload \in EchoIn :
          LET client_key == ClientKey(payload)
              matching == {r \in echo_attempts : /\ r.client_key = client_key
                                                 /\ r.message = payload.message}
          IN  \E attempt \in
                    IF matching = {}
                    THEN {EchoAttempt(echo_log.inserts + 1, client_key, failures, 1,
                                      payload.message) : failures \in 1..3}
                    ELSE {[r EXCEPT !.attempts = @ + 1] : r \in matching} :
                /\ echo_attempts' =
                       {r \in echo_attempts : r.id # attempt.id} \cup {attempt}
                /\ echo_log' =
                       [echo_log EXCEPT
                           !.inserts = IF matching = {} THEN @ + 1 ELSE @,
                           !.served = @ + 1,
                           !.count[<<client_key, payload.message>>] = @ + 1,
                           !.last = IF attempt.attempts < attempt.failures
                                    THEN EchoResponse(client_key, payload.message, 503, 0)
                                    ELSE EchoResponse(client_key, payload.message, 200,
                                                      attempt.attempts)]
    /\ UNCHANGED <<pc, kind, outcome, raised_by, http_status, echo_reqs, notEchoVars>>

\* echo: find the record of (client_key, message) or create it with a random
\* number of failures, count the request, answer 503 while the count has
\* not passed the failures
E_Echo ==
    /\ pc = "e_open"
    /\ echo_log.served < MaxRequests
    /\ \E payload \in EchoIn :
          LET client_key == ClientKey(payload)
              matching == {r \in echo_attempts : /\ r.client_key = client_key
                                                 /\ r.message = payload.message}
          IN  \E attempt \in
                    IF matching = {}
                    THEN {EchoAttempt(echo_log.inserts + 1, client_key, failures, 1,
                                      payload.message) : failures \in 1..3}
                    ELSE {[r EXCEPT !.attempts = @ + 1] : r \in matching} :
                /\ echo_attempts' =
                       {r \in echo_attempts : r.id # attempt.id} \cup {attempt}
                /\ echo_log' =
                       [echo_log EXCEPT
                           !.inserts = IF matching = {} THEN @ + 1 ELSE @,
                           !.served = @ + 1,
                           !.count[<<client_key, payload.message>>] = @ + 1,
                           !.last = IF attempt.attempts <= attempt.failures
                                    THEN EchoResponse(client_key, payload.message, 503, 0)
                                    ELSE EchoResponse(client_key, payload.message, 200,
                                                      attempt.attempts)]
    /\ UNCHANGED <<pc, kind, outcome, raised_by, http_status, echo_reqs, notEchoVars>>

\* reset_attempts: delete every record of the client
E_Reset ==
    /\ pc = "e_open"
    /\ \E client_key \in {"anonymous", "c1"} :
          /\ echo_attempts' = {r \in echo_attempts : r.client_key # client_key}
          /\ echo_log' =
                 [echo_log EXCEPT
                     !.count = [pair \in EchoPairs |->
                                   IF pair[1] = client_key THEN 0 ELSE @[pair]],
                     !.last = NoResponse]
    /\ UNCHANGED <<pc, kind, outcome, raised_by, http_status, echo_reqs, notEchoVars>>

EchoNext == StartEcho \/ E_Echo \/ E_Reset

(***************************************************************************)
(* ai-web: POST /flaky-echo -> get_flaky_echo_payload.  Up to two requests *)
(* of the same client, with the same failures parameter, are in flight;    *)
(* each has its own session, which keeps the row as it last loaded it.     *)
(***************************************************************************)
ClientHost == "h1"

\* key = f"{client_host}:{failures}"
FlakyKey(client_host, failures) == <<client_host, ":", failures>>

IdleRequest == [pc |-> "idle", message |-> "", id |-> 0, attempts |-> 0]

Slots == {1, 2}

StartFlaky ==
    /\ pc = "idle"
    /\ kind' = "flaky_echo"
    /\ \E failures \in 0..MaxFailures :
          echo_log' = [NoEchoLog EXCEPT !.failures = failures]
    /\ echo_reqs' = [slot \in Slots |-> IdleRequest]
    /\ Goto("f_open")
    /\ UNCHANGED <<notEchoVars, echo_attempts>>

\* rows the select of get_flaky_echo_payload matches
FlakyRows ==
    {r \in echo_attempts : /\ r.client_key = FlakyKey(ClientHost, echo_log.failures)
                           /\ r.failures = echo_log.failures}

\* the request is answered: the slot is free again and the answer is logged
Answer(slot, status, attempts) ==
    /\ echo_reqs' = [echo_reqs EXCEPT ![slot] = IdleRequest]
    /\ echo_log' =
           [echo_log EXCEPT
               !.served = @ + 1,
               !.last = EchoResponse(ClientHost, echo_reqs[slot].message, status, attempts),
               !.failed = IF status = 503 THEN @ + 1 ELSE @,
               !.succeeded = IF status = 200 THEN @ + 1 ELSE @,
               !.crashed = IF status = 500 THEN @ + 1 ELSE @,
               !.since_success = IF status = 503 THEN @ + 1
                                 ELSE IF status = 200 THEN 0 ELSE @,
               !.before_first_success =
                   IF status = 200 /\ echo_log.succeeded = 0 THEN echo_log.failed ELSE @]

\* a request arrives and runs the select with scalar_one_or_none(): no row,
\* the row, or MultipleResultsFound, which nothing catches
F_Select(slot) ==
    /\ pc = "f_open"
    /\ echo_reqs[slot].pc = "idle"
    /\ echo_log.served
       + Cardinality({s \in Slots : echo_reqs[s].pc # "idle"}) < MaxFlaky
    /\ \E message \in EchoMessages :
          IF Cardinality(FlakyRows) > 1
          THEN /\ echo_reqs' = echo_reqs
               /\ echo_log' =
                      [echo_log EXCEPT
                          !.served = @ + 1,
                          !.crashed = @ + 1,
                          !.last = EchoResponse(ClientHost, message, 500, 0),
                          !.overlapped =
                              @ \/ \E s \in Slots : echo_reqs[s].pc # "idle"]
          ELSE /\ echo_log' =
                      [echo_log EXCEPT
                          !.overlapped =
                              @ \/ \E s \in Slots : echo_reqs[s].pc # "idle"]
               /\ IF FlakyRows = {}
                  THEN echo_reqs' =
                           [echo_reqs EXCEPT ![slot] =
                               [pc |-> "insert", message |-> message, id |-> 0,
                                attempts |-> 0]]
                  ELSE \E r \in FlakyRows :
                           echo_reqs' =
                               [echo_reqs EXCEPT ![slot] =
                                   [pc |-> "update", message |-> message, id |-> r.id,
                                    attempts |-> r.attempts]]
    /\ UNCHANGED <<pc, kind, outcome, raised_by, http_status, echo_attempts, notEchoVars>>

\* "if result is None": add the row, commit, refresh
F_Insert(slot) ==
    /\ pc = "f_open"
    /\ echo_reqs[slot].pc = "insert"
    /\ echo_attempts' =
           echo_attempts \cup
               {EchoAttempt(echo_log.inserts + 1, FlakyKey(ClientHost, echo_log.failures),
                            echo_log.failures, 0, echo_reqs[slot].message)}
    /\ echo_log' = [echo_log EXCEPT !.inserts = @ + 1]
    /\ echo_reqs' =
           [echo_reqs EXCEPT ![slot] =
               [@ EXCEPT !.pc = "update", !.id = echo_log.inserts + 1, !.attempts = 0]]
    /\ UNCHANGED <<pc, kind, outcome, raised_by, http_status, notEchoVars>>

\* the session writes the row as it holds it: attempts and message
Written(slot, attempts) ==
    {IF r.id = echo_reqs[slot].id
     THEN [r EXCEPT !.attempts = attempts, !.message = echo_reqs[slot].message]
     ELSE r : r \in echo_attempts}

\* F_Update leaving the counter as it is on success
F_Update_NoReset(slot) ==
    /\ pc = "f_open"
    /\ echo_reqs[slot].pc = "update"
    /\ IF echo_reqs[slot].attempts < echo_log.failures
       THEN /\ echo_attempts' =
                   {IF r.id = echo_reqs[slot].id
                    THEN [r EXCEPT !.attempts = echo_reqs[slot].attempts + 1]
                    ELSE r : r \in echo_attempts}
            /\ Answer(slot, 503, 0)
       ELSE /\ echo_attempts' = Written(slot, echo_reqs[slot].attempts)
            /\ Answer(slot, 200, echo_reqs[slot].attempts + 1)
    /\ UNCHANGED <<pc, kind, outcome, raised_by, http_status, notEchoVars>>

\* "if result.attempts < failures": count the attempt, commit, raise
\* EchoServiceError (503); otherwise report attempts + 1, set attempts to 0
\* and the message to the request's, commit, return
F_Update(slot) ==
    /\ pc = "f_open"
    /\ echo_reqs[slot].pc = "update"
    /\ IF echo_reqs[slot].attempts < echo_log.failures
       THEN /\ echo_attempts' =
                   {IF r.id = echo_reqs[slot].id
                    THEN [r EXCEPT !.attempts = echo_reqs[slot].attempts + 1]
                    ELSE r : r \in echo_attempts}
            /\ Answer(slot, 503, 0)
       ELSE /\ echo_attempts' = Written(slot, 0)
            /\ Answer(slot, 200, echo_reqs[slot].attempts + 1)
    /\ UNCHANGED <<pc, kind, outcome, raised_by, http_status, notEchoVars>>

FlakyNext ==
    StartFlaky \/ \E slot \in Slots : F_Select(slot) \/ F_Insert(slot) \/ F_Update(slot)

(***************************************************************************)
(* logistics: ingest_documents.py.  A sentence is its word and its length  *)
(* in characters; a file is its stem and the sentences of its text.        *)
(***************************************************************************)
Sentences == {[text |-> "sun", len |-> 40], [text |-> "Rain", len |-> 480]}

FileTexts == UNION {[1..n -> Sentences] : n \in 1..MaxSentences}

\* file_path.stem of the files in data/
Stems == {<<"guide">>, <<"guide", "_chunk_", 0>>}

\* chunk_size and overlap of chunk_document
ChunkSize == 500
Overlap == 50

\* "for s in reversed(current_chunk)": the longest tail of the chunk whose
\* sentences, taken from the last one backwards, stay within the overlap
RECURSIVE OverlapSentences(_, _, _)
OverlapSentences(current_chunk, overlap_sentences, overlap_length) ==
    IF current_chunk = <<>> THEN overlap_sentences
    ELSE LET s == current_chunk[Len(current_chunk)]
         IN  IF overlap_length + s.len <= Overlap
             THEN OverlapSentences(SubSeq(current_chunk, 1, Len(current_chunk) - 1),
                                   <<s>> \o overlap_sentences, overlap_length + s.len)
             ELSE overlap_sentences

RECURSIVE Length(_)
Length(sentences) ==
    IF sentences = <<>> THEN 0 ELSE Head(sentences).len + Length(Tail(sentences))

\* ' '.join(current_chunk): the words of the chunk
Join(current_chunk) == [i \in 1..Len(current_chunk) |-> current_chunk[i].text]

\* the loop of chunk_document and its final chunk
RECURSIVE ChunkLoop(_, _, _)
ChunkLoop(sentences, pieces, current_chunk) ==
    IF sentences = <<>>
    THEN IF current_chunk # <<>> THEN Append(pieces, Join(current_chunk)) ELSE pieces
    ELSE LET sentence == Head(sentences)
         IN  IF Length(current_chunk) + sentence.len > ChunkSize /\ current_chunk # <<>>
             THEN ChunkLoop(Tail(sentences), Append(pieces, Join(current_chunk)),
                            Append(OverlapSentences(current_chunk, <<>>, 0), sentence))
             ELSE ChunkLoop(Tail(sentences), pieces, Append(current_chunk, sentence))

chunk_document(text) == ChunkLoop(text, <<>>, <<>>)

\* f"{slug}_chunk_{i}"
ChunkSlug(slug, i) == slug \o <<"_chunk_", i>>

\* file_path.name
FileName(stem) == stem \o <<".txt">>

\* ingest_file: delete the rows whose slug equals the file's slug, add one
\* row per chunk, commit
ingest_file(table, stem, text) ==
    LET kept == SelectSeq(table, LAMBDA row : row.slug # stem)
        pieces == chunk_document(text)
    IN  kept \o [i \in 1..Len(pieces) |->
                    [slug |-> ChunkSlug(stem, i - 1), source |-> FileName(stem),
                     content |-> pieces[i],
                     embedding |-> Embedding(embed_text("logistics", pieces[i], 0))]]

NoIngestLog == [runs |-> 0, latest |-> [stem \in Stems |-> <<>>]]

StartIngest ==
    /\ pc = "idle"
    /\ kind' = "ingest"
    /\ Goto("i_open")
    /\ UNCHANGED <<notIngestVars, ingestVars>>

\* main: one call of ingest_file, with the slug main gives it
I_IngestFile ==
    /\ pc = "i_open"
    /\ ingest_log.runs < MaxIngests
    /\ \E stem \in Stems : \E text \in FileTexts :
          /\ ingested' = ingest_file(ingested, stem, text)
          /\ ingest_log' = [ingest_log EXCEPT !.runs = @ + 1, !.latest[stem] = text]
    /\ UNCHANGED <<pc, kind, outcome, raised_by, http_status, notIngestVars>>

IngestNext == StartIngest \/ I_IngestFile

(***************************************************************************)
(* Two requests call build_retriever(db).search(query, 3) at the same      *)
(* time, each with its own session and in its own worker, while chunks may *)
(* be ingested.  A session keeps the rows as it loaded them; its commit    *)
(* writes the embeddings it set and expires the rows, which are loaded     *)
(* again, one by one, when Retriever.__init__ reads them.                  *)
(***************************************************************************)
\* the query the requests search with
SharedQueries == {<<"Rain">>}

\* the chunk in row i of the store: its text goes with the row, its
\* embedding is missing or was stored by a worker with seed 0
SharedChunks(rag, i) ==
    {c \in StoredChunks(rag, i + 2) :
        /\ c.embedding \in {NoEmbedding, Embedding(embed_text(rag, c.content, 0))}}

SharedStores(rag) ==
    UNION {{store \in [1..n -> DocumentChunk[rag]] :
               \A i \in 1..n : store[i] \in SharedChunks(rag, i)} : n \in 0..MaxShared}

\* Retriever.__init__: the list of chunks and the index over their embeddings
Retriever(list) ==
    [chunks |-> [i \in 1..Len(list) |-> [content |-> list[i].content,
                                         source |-> list[i].source]],
     index |-> [i \in 1..Len(list) |-> list[i].embedding]]

\* the rows Retriever.search works on: chunk i with row i of the index
Indexed(retriever) ==
    [i \in 1..Len(retriever.chunks) |->
        [content |-> retriever.chunks[i].content, source |-> retriever.chunks[i].source,
         embedding |-> retriever.index[i]]]

NoRetriever == Retriever(<<>>)

\* build_retriever keeping one Retriever and rebuilding it in place
build_retriever_InPlace(heap, list) ==
    IF heap = <<>> THEN [heap |-> <<Retriever(list)>>, id |-> 1]
    ELSE [heap |-> [heap EXCEPT ![1] = Retriever(list)], id |-> 1]

\* build_retriever after ensure_embeddings: the cached empty Retriever when
\* there are no chunks, a new Retriever otherwise
build_retriever(heap, list) ==
    IF list = <<>> /\ \E id \in 1..Len(heap) : heap[id] = NoRetriever
    THEN [heap |-> heap, id |-> CHOOSE id \in 1..Len(heap) : heap[id] = NoRetriever]
    ELSE [heap |-> Append(heap, Retriever(list)), id |-> Len(heap) + 1]

NewRequest(seed) ==
    [pc |-> "select", seed |-> seed, chunks |-> <<>>, loaded |-> 0, retriever |-> 0,
     built |-> NoRetriever, query |-> <<>>, results |-> <<>>]

NoHistory == [store |-> <<>>, commits |-> 0, ingested |-> 0]

StartShared ==
    /\ pc = "idle"
    /\ kind' = "rag_shared"
    /\ \E rag \in {"ai-web", "logistics"} :
          /\ backend' = rag
          /\ \E store \in SharedStores(rag) :
                /\ chunks' = store
                /\ rag_hist' = [NoHistory EXCEPT !.store = store]
    /\ \E seed \in HashSeeds : rag_reqs' = <<NewRequest(0), NewRequest(seed)>>
    /\ Goto("q_open")
    /\ UNCHANGED <<notSharedVars, hash_seed, db_commits, embed_calls, ensure_calls,
                   retrieval, retrievers>>

\* ensure_embeddings, line 1: the select
Q_Select(slot) ==
    /\ pc = "q_open"
    /\ rag_reqs[slot].pc = "select"
    /\ rag_reqs' = [rag_reqs EXCEPT ![slot] =
                       [@ EXCEPT !.pc = "embed", !.chunks = chunks, !.loaded = Len(chunks)]]
    /\ UNCHANGED <<pc, kind, outcome, raised_by, http_status, notSharedVars, ragVars,
                   retrievers, rag_hist>>

\* the UPDATEs of the commit: the embedding of every row the session set
Committed(table, before, after) ==
    [i \in 1..Len(table) |->
        IF i <= Len(before) /\ ~before[i].embedding.has
        THEN [table[i] EXCEPT !.embedding = after[i].embedding]
        ELSE table[i]]

\* Q_Embed without the commit
Q_Embed_NoCommit(slot) ==
    /\ pc = "q_open"
    /\ rag_reqs[slot].pc = "embed"
    /\ rag_reqs' = [rag_reqs EXCEPT ![slot] =
                       [@ EXCEPT !.pc = "build",
                                 !.chunks = WithEmbeddings(backend, @, rag_reqs[slot].seed)]]
    /\ UNCHANGED <<pc, kind, outcome, raised_by, http_status, notSharedVars, ragVars,
                   retrievers, rag_hist>>

\* ensure_embeddings, the loop and the commit, which may raise
Q_Embed(slot) ==
    /\ pc = "q_open"
    /\ rag_reqs[slot].pc = "embed"
    /\ LET before == rag_reqs[slot].chunks
           after == WithEmbeddings(backend, before, rag_reqs[slot].seed)
       IN  \/ /\ MissingEmbeddings(before) = 0
              /\ rag_reqs' = [rag_reqs EXCEPT ![slot] = [@ EXCEPT !.pc = "build"]]
              /\ UNCHANGED <<chunks, rag_hist>>
           \/ /\ MissingEmbeddings(before) # 0
              /\ chunks' = Committed(chunks, before, after)
              /\ rag_hist' = [rag_hist EXCEPT !.commits = @ + 1]
              /\ rag_reqs' = [rag_reqs EXCEPT ![slot] =
                                 [@ EXCEPT !.pc = "build", !.chunks = after, !.loaded = 0]]
           \/ /\ MissingEmbeddings(before) # 0
              /\ rag_reqs' = [rag_reqs EXCEPT ![slot] = [@ EXCEPT !.pc = "failed"]]
              /\ UNCHANGED <<chunks, rag_hist>>
    /\ UNCHANGED <<pc, kind, outcome, raised_by, http_status, notSharedVars, backend,
                   hash_seed, db_commits, embed_calls, ensure_calls, retrieval, retrievers>>

\* Retriever.__init__ reads chunk.embedding of a row the commit expired:
\* the session loads the row as the table has it now
Q_Refresh(slot) ==
    /\ pc = "q_open"
    /\ rag_reqs[slot].pc = "build"
    /\ rag_reqs[slot].loaded < Len(rag_reqs[slot].chunks)
    /\ rag_reqs' = [rag_reqs EXCEPT ![slot] =
                       [@ EXCEPT !.loaded = @ + 1,
                                 !.chunks[rag_reqs[slot].loaded + 1] =
                                     chunks[rag_reqs[slot].loaded + 1]]]
    /\ UNCHANGED <<pc, kind, outcome, raised_by, http_status, notSharedVars, ragVars,
                   retrievers, rag_hist>>

\* build_retriever, after ensure_embeddings
Q_Build(slot) ==
    /\ pc = "q_open"
    /\ rag_reqs[slot].pc = "build"
    /\ rag_reqs[slot].loaded = Len(rag_reqs[slot].chunks)
    /\ LET made == build_retriever(retrievers, rag_reqs[slot].chunks)
       IN  /\ retrievers' = made.heap
           /\ rag_reqs' = [rag_reqs EXCEPT ![slot] =
                              [@ EXCEPT !.pc = "search", !.retriever = made.id,
                                        !.built = made.heap[made.id]]]
    /\ UNCHANGED <<pc, kind, outcome, raised_by, http_status, notSharedVars, ragVars,
                   rag_hist>>

\* retriever.search(query, 3) on the Retriever the request holds
Q_Search(slot) ==
    /\ pc = "q_open"
    /\ rag_reqs[slot].pc = "search"
    /\ \E query \in SharedQueries :
          \E found \in search(Indexed(retrievers[rag_reqs[slot].retriever]),
                              embed_text(backend, query, rag_reqs[slot].seed), 3) :
              rag_reqs' = [rag_reqs EXCEPT ![slot] =
                              [@ EXCEPT !.pc = "done", !.query = query,
                                        !.results = found.results]]
    /\ UNCHANGED <<pc, kind, outcome, raised_by, http_status, notSharedVars, ragVars,
                   retrievers, rag_hist>>

\* a chunk is ingested while the requests run
Q_Ingest ==
    /\ pc = "q_open"
    /\ Len(chunks) < MaxShared
    /\ \E c \in SharedChunks(backend, Len(chunks) + 1) : chunks' = Append(chunks, c)
    /\ rag_hist' = [rag_hist EXCEPT !.ingested = @ + 1]
    /\ UNCHANGED <<pc, kind, outcome, raised_by, http_status, notSharedVars, backend,
                   hash_seed, db_commits, embed_calls, ensure_calls, retrieval,
                   rag_reqs, retrievers>>

SharedNext ==
    \/ StartShared
    \/ Q_Ingest
    \/ \E slot \in Slots :
          Q_Select(slot) \/ Q_Embed(slot) \/ Q_Refresh(slot) \/ Q_Build(slot) \/ Q_Search(slot)

Init ==
    /\ pc = "idle"
    /\ kind = "none"
    /\ route_request = NoRequest
    /\ hasDb = FALSE
    /\ llm_configured = FALSE
    /\ rag_contexts = <<>>
    /\ tool_calls = <<>>
    /\ tool_results = NoResults
    /\ invoked = <<>>
    /\ tool_context = <<>>
    /\ llm_called = FALSE
    /\ agent_output = <<>>
    /\ validation_result = NoResult
    /\ context = NoContext
    /\ gemini = NoGemini
    /\ run_result = NoRunResult
    /\ agentRuns \in {<<>>, <<EarlierRun>>}
    /\ outcome = "none"
    /\ raised_by = "none"
    /\ http_status = 0
    /\ timing_request = NoTimingRequest
    /\ timing_arrivals = <<>>
    /\ timing_result = NoTimingResult
    /\ backend = "ai-web"
    /\ hash_seed = 0
    /\ chunks = <<>>
    /\ db_commits = 0
    /\ embed_calls = 0
    /\ ensure_calls = 0
    /\ retrieval = NoRetrieval
    /\ metrics_call = NoMetricsCall
    /\ weather_call = NoWeatherCall
    /\ echo_attempts = {}
    /\ echo_reqs = <<>>
    /\ echo_log = NoEchoLog
    /\ ingested = <<>>
    /\ ingest_log = NoIngestLog
    /\ rag_reqs = <<>>
    /\ retrievers = <<>>
    /\ rag_hist = NoHistory

Next ==
    \/ RouteNext \/ ReleaseNext \/ ChatNext \/ OldParserNext \/ TimingNext \/ RagNext
    \/ MetricsNext \/ WeatherNext \/ EchoNext \/ FlakyNext \/ IngestNext \/ SharedNext

Spec == Init /\ [][Next]_vars

\* every HTTP request of check_weather_conditions carries a timeout and the
\* rest of the tool is straight-line code, so a step that is enabled is
\* eventually taken
WeatherLive ==
    /\ Init
    /\ [][WeatherNext]_vars
    /\ WF_vars(W_First) /\ WF_vars(W_Second) /\ WF_vars(W_Parse)

(***************************************************************************)
(* Properties                                                              *)
(***************************************************************************)
RECURSIVE Count(_, _)
Count(names, name) ==
    IF names = <<>> THEN 0
    ELSE (IF Head(names) = name THEN 1 ELSE 0) + Count(Tail(names), name)

\* s can be obtained from t by deleting elements
RECURSIVE IsSubseq(_, _)
IsSubseq(s, t) ==
    IF s = <<>> THEN TRUE
    ELSE IF t = <<>> THEN FALSE
    ELSE IF Head(s) = Head(t) THEN IsSubseq(Tail(s), Tail(t))
    ELSE IsSubseq(s, Tail(t))

TraceNames == [i \in 1..Len(tool_calls) |-> tool_calls[i].tool]

RouteTools == {"check_weather_conditions", "calculate_route_metrics", "validate_route_timing",
               "optimize_stop_sequence", "check_traffic_conditions"}

ReleaseTools == {"fetch_feature_brief", "fetch_launch_window", "fetch_support_contacts",
                 "list_slo_watch_items"}

\* the capabilities of the route agent that apply to a request, in code order
ApplicableTools(request) ==
    <<"check_weather_conditions">>
    \o (IF Len(request.stops) > 0 THEN <<"calculate_route_metrics">> ELSE <<>>)
    \o (IF request.task \in {"validate_route", "validate_and_recommend"}
        THEN <<"validate_route_timing">> ELSE <<>>)
    \o (IF request.task \in {"optimize_route", "validate_and_recommend"}
        THEN <<"optimize_stop_sequence">> ELSE <<>>)
    \o <<"check_traffic_conditions">>

\* the result keys of the capabilities that apply to a request
ApplicableKeys(request) ==
    <<"weather">>
    \o (IF Len(request.stops) > 0 THEN <<"metrics">> ELSE <<>>)
    \o (IF request.task \in {"validate_route", "validate_and_recommend"}
        THEN <<"timing_validation">> ELSE <<>>)
    \o (IF request.task \in {"optimize_route", "validate_and_recommend"}
        THEN <<"optimization">> ELSE <<>>)
    \o <<"traffic">>

InvokedTools == SelectSeq(invoked, LAMBDA n : n \in RouteTools)

\* the route agent has left the tool block
PastTools ==
    \/ pc \in {"r_context", "r_llm", "r_parse", "r_persist"}
    \/ pc = "done" /\ raised_by \notin {"get_llm", "retrieval"}

\* C1: in run_route_validation_agent, whatever subset of the capabilities
\* raised, every capability that applies to the request was invoked, the
\* context handed to the LLM has one section per applicable capability, the
\* LLM was called, and no capability exception reaches the caller: the run
\* returns its result unless the provider, retrieval or persistence step
\* (none of them a capability) raised.
C1_FailureIsolation ==
    kind = "route" =>
        /\ PastTools => InvokedTools = ApplicableTools(route_request)
        /\ pc \in {"r_llm", "r_parse", "r_persist"}
              => tool_context = ApplicableKeys(route_request)
                                \o (IF rag_contexts # <<>> THEN <<"knowledge_base">> ELSE <<>>)
        /\ pc = "done" =>
              /\ raised_by \notin RouteTools
              /\ raised_by \in {"llm", "persistence", "none"} => llm_called
              /\ raised_by = "none" => outcome = "returned" /\ http_status = 200
        /\ pc \in {"r_parse", "r_persist"} => llm_called

\* C1 witness: a returned run in which every applicable capability raised
C1_Witness ==
    /\ kind = "route" /\ pc = "done" /\ outcome = "returned"
    /\ route_request.task = "validate_and_recommend"
    /\ Len(route_request.stops) > 0
    /\ \A k \in SeqToSet(ResultKeys) : tool_results[k] = Message
    /\ tool_context = ResultKeys

\* C2: a failure of the LLM provider call never reaches the caller: no run
\* ends with the provider's exception.
C2_LLMFailureDegrades ==
    pc = "done" /\ llm_called => raised_by # "llm" /\ (raised_by = "none" => outcome = "returned")

\* C3: without a configured LLM provider, a route-validation request with at
\* least one stop still returns a result with a non-empty action_plan.
C3_NoProviderStillPlans ==
    (kind = "route" /\ pc = "done" /\ ~llm_configured /\ Len(route_request.stops) >= 1)
        => /\ outcome = "returned"
           /\ validation_result.action_plan # <<>>

\* C4: in the trace of every returned run, every attempted capability
\* invocation has exactly one entry, whether it succeeded or failed.
C4_EveryAttemptTraced ==
    (pc = "done" /\ outcome = "returned") =>
        \A name \in RouteTools \cup ReleaseTools :
            Count(TraceNames, name) = Count(invoked, name)

\* C5: the trace entries are in the order in which the capabilities, document
\* retrieval included, were invoked.
C5_TraceInInvocationOrder == IsSubseq(TraceNames, invoked)

\* C6: a failing save of the run record is never turned into a request
\* failure: no run ends with the persistence step's exception.
C6_PersistenceFailureHidden ==
    pc = "done" => raised_by # "persistence"

C8_UsedFlagIffLLMOutput ==
    (pc = "done" /\ outcome = "returned") =>
        /\ (kind = "route" /\ hasDb) =>
              (agentRuns[Len(agentRuns)].used_gemini <=> (llm_called /\ agent_output # <<>>))
        /\ kind = "release" =>
              (run_result.used_gemini <=>
                  (\/ run_result.gemini_insight.some
                   \/ \E i \in 1..Len(run_result.recommended_actions) :
                         run_result.recommended_actions[i].ai))
        /\ kind = "chat" =>
              (run_result.used_gemini <=> run_result.answer_from = "llm")

\* C9: not-found (404) is answered exactly for an unknown subject, and then
\* before any retrieval, LLM call or persistence.
C9_NotFoundIffUnknownSubject ==
    /\ http_status = 404 => raised_by = "unknown_subject"
    /\ (kind = "release" /\ pc = "done" /\ context.feature_slug \notin _FEATURE_BRIEFS)
          => /\ http_status = 404
             /\ ~llm_called
             /\ Count(invoked, "rag_retrieval") = 0
             /\ rag_contexts = <<>>

\* C10: when the metrics payload carries duration and distance figures, the
\* result's estimated_duration_hours and estimated_distance_km are those
\* figures, whatever the LLM reply states.
C10_FiguresFromMetrics ==
    (/\ kind \in {"route", "parse_old"} /\ pc = "done" /\ outcome = "returned"
     /\ Loads(tool_results["metrics"])
     /\ Get(tool_results["metrics"].data, "estimated_time_hours") # None
     /\ Get(tool_results["metrics"].data, "distance_km") # None)
        => /\ validation_result.estimated_duration_hours
                = tool_results["metrics"].data.estimated_time_hours
           /\ validation_result.estimated_distance_km
                = tool_results["metrics"].data.distance_km

\* C11: for every stop that declares a time-window end, an arrival computed
\* by validate_route_timing later than that end makes the result invalid
\* and puts an issue naming the stop into it
C11_LateArrivalFlagged ==
    (kind = "timing" /\ pc = "done") =>
        \A i \in 1..Len(timing_request.stops) :
            (/\ timing_request.stops[i].time_window_end # None
             /\ Strftime(timing_arrivals[i]) > timing_request.stops[i].time_window_end)
            => /\ timing_result.has_is_valid
               /\ ~timing_result.is_valid
               /\ \E j \in 1..Len(timing_result.issues) :
                     timing_result.issues[j].stop_id = StopIds[i]

\* C12: each well-formed line "RECOMMENDATION: Title|Detail|<p>" of the
\* reply gives one recommendation with that title and detail, whose priority
\* is <p> when <p> is high, medium or low and medium for any other token
C12_RecommendationLineParsed ==
    (kind = "release" /\ pc \in {"f_assemble", "f_persist", "done"} /\ llm_called
     /\ agent_output # <<>>) =>
        \A i \in 1..Len(agent_output) :
            (agent_output[i].head = "RECOMMENDATION:" /\ Len(agent_output[i].parts) = 3)
            => \E j \in 1..Len(gemini.recommendations) :
                  /\ gemini.recommendations[j].title = agent_output[i].parts[1]
                  /\ gemini.recommendations[j].detail = agent_output[i].parts[2]
                  /\ gemini.recommendations[j].priority =
                        (IF agent_output[i].parts[3] \in {"high", "medium", "low"}
                         THEN agent_output[i].parts[3] ELSE "medium")

\* prefixes the two parsers recognise
RoutePrefixes == {"VALID:", "ISSUE:", "RECOMMENDATION:", "OPTIMIZED_ORDER:", "SUMMARY:"}
ReleasePrefixes == {"INSIGHT:", "RECOMMENDATION_1:", "RECOMMENDATION_2:"}

\* no line of a non-empty reply starts with one of the prefixes
NoPrefixMatched(reply, prefixes) ==
    /\ reply # <<>>
    /\ \A i \in 1..Len(reply) : reply[i].head \notin prefixes

\* C13: when no line of the reply starts with a recognised prefix, the
\* parser derives between one and three recommendations from the sentences
\* of the raw reply (every such reply of the model holds a full sentence)
C13_FallbackSentences ==
    /\ (kind = "route" /\ pc = "r_persist" /\ NoPrefixMatched(agent_output, RoutePrefixes))
       => Len(validation_result.recommendations) \in 1..3
    /\ (kind = "release" /\ pc = "f_assemble" /\ llm_called
        /\ NoPrefixMatched(agent_output, ReleasePrefixes))
       => Len(gemini.recommendations) \in 1..3

\* C14: whenever the SLO lookup returns at least one item for the feature,
\* the recommendation list of the run has at least 3 entries, whatever the
\* LLM did and whatever the request options are
C14_RecommendationFloor ==
    (kind = "release" /\ pc = "f_persist" /\ SloItems(context.feature_slug) # <<>>)
    => Len(run_result.recommended_actions) >= 3

HasStep(plan, name) == \E i \in 1..Len(plan) : plan[i].step = name

\* a tool_results entry that is a payload and not an error marker
GoodPayload(results, key) == HasPayload(results, key) /\ ~results[key].data.error

\* the plan steps that come from one tool payload only
PayloadStepsBacked(plan, results) ==
    /\ HasStep(plan, "review_metrics")
       => /\ GoodPayload(results, "metrics")
          /\ \/ results["metrics"].data.distance_km # None
             \/ results["metrics"].data.estimated_time_hours # None
    /\ HasStep(plan, "brief_weather")
       => /\ GoodPayload(results, "weather")
          /\ \/ results["weather"].data.conditions # ""
             \/ results["weather"].data.delivery_impact # ""
    /\ HasStep(plan, "traffic_insights")
       => /\ GoodPayload(results, "traffic")
          /\ \/ results["traffic"].data.traffic_level # ""
             \/ results["traffic"].data.delay_factor # None

\* C15 (as stated): the metrics, weather, traffic and schedule steps of the
\* action plan each appear only if a source field is present in the
\* corresponding tool payload; a tool that raised or returned an error
\* marker contributes no step
C15_StepsBackedByPayloads ==
    (kind = "route" /\ pc = "r_persist") =>
        /\ PayloadStepsBacked(validation_result.action_plan, tool_results)
        /\ HasStep(validation_result.action_plan, "confirm_schedule")
           => /\ GoodPayload(tool_results, "timing_validation")
              /\ tool_results["timing_validation"].data.issues # <<>>

\* C15 (amended): the metrics, weather and traffic steps each appear only if
\* a source field is present in the corresponding payload; the schedule
\* step appears only if the timing payload reports issues or the request
\* carries constraints; the path and dispatch steps appear only if the
\* request has a stop to visit; no step is an empty line
C15_StepsBackedByData ==
    (kind = "route" /\ pc = "r_persist") =>
        /\ PayloadStepsBacked(validation_result.action_plan, tool_results)
        /\ HasStep(validation_result.action_plan, "confirm_schedule")
           => \/ /\ GoodPayload(tool_results, "timing_validation")
                 /\ tool_results["timing_validation"].data.issues # <<>>
              \/ route_request.has_constraints
        /\ (HasStep(validation_result.action_plan, "plot_path")
            \/ HasStep(validation_result.action_plan, "dispatch"))
           => route_request.stops # <<>>
        /\ \A i \in 1..Len(validation_result.action_plan) :
              validation_result.action_plan[i].step # ""

\* a plan was built although the metrics tool returned an error marker and
\* the weather tool raised: it has neither step, and other steps are there
C15_Witness ==
    /\ kind = "route" /\ pc = "r_persist"
    /\ HasPayload(tool_results, "metrics") /\ tool_results["metrics"].data.error
    /\ tool_results["weather"].form = "text"
    /\ ~HasStep(validation_result.action_plan, "review_metrics")
    /\ ~HasStep(validation_result.action_plan, "brief_weather")
    /\ HasStep(validation_result.action_plan, "traffic_insights")
    /\ HasStep(validation_result.action_plan, "confirm_schedule")

\* C16: for a non-empty chunk set and k >= 1, search returns at most
\* min(k, number of chunks) results, each the (content, source) of a stored
\* chunk with its distance to the query vector, in non-decreasing distance
C16_SearchNearestFirst ==
    (kind = "rag" /\ pc = "done" /\ outcome = "returned" /\ retrieval.called
     /\ retrieval.n >= 1 /\ retrieval.k >= 1) =>
        LET r == retrieval.results
            query_vector == embed_text(backend, retrieval.query, hash_seed)
        IN  /\ Len(r) <= Min(retrieval.k, retrieval.n)
            /\ \A i \in 1..Len(r) :
                  \E c \in 1..Len(chunks) :
                     /\ chunks[c].content = r[i].content
                     /\ chunks[c].source = r[i].source
                     /\ r[i].score = Distance(query_vector, chunks[c].embedding.vec)
            /\ \A i, j \in 1..Len(r) : i < j => r[i].score <= r[j].score

\* a search with k above the number of chunks returned them all, the
\* nearer one first
C16_Witness ==
    /\ kind = "rag" /\ pc = "done" /\ outcome = "returned" /\ retrieval.called
    /\ retrieval.k = 3 /\ retrieval.n = 2
    /\ Len(retrieval.results) = 2
    /\ retrieval.results[1].score < retrieval.results[2].score

\* C17: for a non-empty chunk set and k <= 0, search returns an empty list
\* and does not raise
C17_NonPositiveKGivesEmpty ==
    (kind = "rag" /\ pc = "done" /\ retrieval.called /\ retrieval.n >= 1
     /\ retrieval.k <= 0) =>
        /\ outcome = "returned"
        /\ retrieval.results = <<>>

\* C18: with zero chunks in the store, build_retriever succeeds and search
\* returns an empty list for every query and every k, without raising and
\* without a call of embed_text
C18_EmptyStoreGivesEmpty ==
    [][(kind = "rag" /\ pc = "g_serve" /\ chunks = <<>> /\ pc' = "done") =>
          /\ outcome' = "returned"
          /\ retrieval'.called
          /\ retrieval'.results = <<>>
          /\ embed_calls' = embed_calls
          /\ db_commits' = db_commits]_vars

\* a search with a negative k on an empty store has returned
C18_Witness ==
    /\ kind = "rag" /\ pc = "done" /\ outcome = "returned"
    /\ chunks = <<>>
    /\ retrieval.called /\ retrieval.k = -1 /\ retrieval.n = 0
    /\ retrieval.results = <<>>

\* C19: embed_text gives the same vector for the same text in every worker
\* process and at every time, so the embedding stored with a chunk equals
\* the one recomputed from its content in the serving process
C19_EmbeddingDeterministic ==
    kind = "rag" =>
        \A i \in 1..Len(chunks) :
            chunks[i].embedding.has
            => chunks[i].embedding.vec = embed_text(backend, chunks[i].content, hash_seed)

\* C20: when a call of ensure_embeddings returns, every chunk has an
\* embedding: the chunks that had one keep it unchanged, the others get
\* embed_text(content); a call that finds no chunk without embedding writes
\* nothing
C20_EnsureEmbeddingsConverges ==
    [][(kind = "rag" /\ ensure_calls' = ensure_calls + 1) =>
          /\ Len(chunks') = Len(chunks)
          /\ \A i \in 1..Len(chunks) :
                /\ chunks'[i].embedding.has
                /\ chunks'[i].content = chunks[i].content
                /\ chunks[i].embedding.has => chunks'[i] = chunks[i]
                /\ ~chunks[i].embedding.has
                   => chunks'[i].embedding.vec
                      = embed_text(backend, chunks[i].content, hash_seed)
          /\ MissingEmbeddings(chunks) = 0
             => /\ chunks' = chunks
                /\ db_commits' = db_commits]_vars

\* two calls have returned: the first wrote the missing embeddings, the
\* second wrote nothing
C20_Witness ==
    /\ kind = "rag" /\ pc = "g_serve"
    /\ ensure_calls = 2 /\ db_commits = 1
    /\ chunks # <<>>
    /\ \A i \in 1..Len(chunks) : chunks[i].embedding.has

\* the reply holds the line "VALID: true"
SaysValid(reply) == \E i \in 1..Len(reply) : reply[i].head = "VALID:" /\ reply[i].text = "true"

\* C27: if the timing payload reports is_valid=false, the result has
\* is_valid=false and its issues hold every issue of the payload, whatever
\* the VALID line of the LLM reply says
C27_TimingOverridesLLM ==
    (kind = "route" /\ pc = "r_persist" /\ HasPayload(tool_results, "timing_validation")
     /\ tool_results["timing_validation"].data.has_is_valid
     /\ ~tool_results["timing_validation"].data.is_valid) =>
        /\ ~validation_result.is_valid
        /\ \A i \in 1..Len(tool_results["timing_validation"].data.issues) :
              \E j \in 1..Len(validation_result.issues) :
                 validation_result.issues[j] = tool_results["timing_validation"].data.issues[i]

\* the LLM said "VALID: true" over a failed timing check and the result is
\* invalid with the timing issue in it
C27_Witness ==
    /\ kind = "route" /\ pc = "r_persist"
    /\ SaysValid(agent_output)
    /\ HasPayload(tool_results, "timing_validation")
    /\ tool_results["timing_validation"].data.has_is_valid
    /\ ~tool_results["timing_validation"].data.is_valid
    /\ ~validation_result.is_valid
    /\ validation_result.issues = <<"s1: Late arrival">>

\* the stops listed by the delivery-path step of a plan
PathStops(plan) == plan[CHOOSE i \in 1..Len(plan) : plan[i].step = "plot_path"].stops

\* C28: whenever the request has at least one stop, the delivery-path step
\* lists every stop of the request exactly once and the dispatch step is
\* present
C28_PathIsPermutation ==
    (kind = "route" /\ pc = "r_persist" /\ route_request.stops # <<>>) =>
        /\ HasStep(validation_result.action_plan, "plot_path")
        /\ HasStep(validation_result.action_plan, "dispatch")
        /\ Len(PathStops(validation_result.action_plan)) = Len(route_request.stops)
        /\ \A i \in 1..Len(route_request.stops) :
              Cardinality({j \in 1..Len(PathStops(validation_result.action_plan)) :
                             PathStops(validation_result.action_plan)[j]
                             = route_request.stops[i].stop_id}) = 1

\* outcomes with which a provider did not produce figures
NoFigures == {"unconfigured", "raises", "no_route"}

\* C26: the providers are tried in the order MapBox, Google Maps, geopy; a
\* provider that is unconfigured, raises or returns no route falls through
\* to the next one; data_source names the provider that produced the
\* figures; when every path fails the result is the error marker, and the
\* tool never raises
C26_ProviderFallThrough ==
    (kind = "metrics" /\ pc = "done" /\ metrics_call.has_stops) =>
        LET tried == metrics_call.tried
            last == tried[Len(tried)]
        IN  /\ outcome = "returned"
            /\ \A i \in 1..Len(tried) : tried[i].provider = <<"mapbox", "google", "geopy">>[i]
            /\ \A i \in 1..(Len(tried) - 1) : tried[i].outcome \in NoFigures
            /\ IF last.outcome \in NoFigures
               THEN last.provider = "geopy" /\ metrics_call.result.error
               ELSE /\ ~metrics_call.result.error
                    /\ metrics_call.result.data_source
                       = (IF last.provider = "mapbox" THEN "mapbox_real_traffic"
                          ELSE IF last.provider = "google"
                          THEN "google_maps_real_traffic (fallback)"
                          ELSE "geopy_estimated")

\* the shape of one invocation of check_weather_conditions
WeatherCallShape ==
    kind = "weather" =>
        LET requests == weather_call.requests
        IN  /\ Len(requests) <= 2
            /\ Len(requests) >= 1 => requests[1].timeout = 5
            /\ Len(requests) = 2
               => /\ requests[1].outcome = "timeout"
                  /\ requests[2].timeout = 10
                  /\ requests[2].timeout > requests[1].timeout
            /\ pc = "done"
               => /\ outcome = "returned"
                  /\ requests # <<>>
                  /\ requests[Len(requests)].outcome # "ok" => weather_call.result.error
                  /\ ~weather_call.result.error
                     => /\ requests[Len(requests)].outcome = "ok"
                        /\ weather_call.result \in WeatherPayloads

\* the first request timed out, the second was answered and the payload
\* was returned
C30_Witness ==
    /\ kind = "weather" /\ pc = "done" /\ outcome = "returned"
    /\ Len(weather_call.requests) = 2
    /\ weather_call.requests[1].outcome = "timeout"
    /\ weather_call.requests[2].outcome = "ok"
    /\ ~weather_call.result.error

\* C30: check_weather_conditions makes at most two HTTP requests, the
\* second (with the longer timeout) only after the first timed out, and it
\* always ends, by returning: the weather payload when a request was answered and
\* parsed, the error marker on any failure, never an exception
C30_WeatherRetriesOnTimeoutOnly ==
    /\ []WeatherCallShape
    /\ (kind = "weather") ~> (kind = "weather" /\ pc = "done" /\ outcome = "returned")

\* the record of (client_key, message), when there is exactly one
EchoRecord(pair) ==
    CHOOSE r \in echo_attempts : r.client_key = pair[1] /\ r.message = pair[2]

\* what holds of the logistics echo after any number of requests and resets
EchoCycle ==
    kind = "echo" =>
        /\ \A pair \in EchoPairs :
              LET records == {r \in echo_attempts : /\ r.client_key = pair[1]
                                                    /\ r.message = pair[2]}
              IN  /\ Cardinality(records) = (IF echo_log.count[pair] = 0 THEN 0 ELSE 1)
                  /\ \A r \in records : r.failures \in 1..3
                                        /\ r.attempts = echo_log.count[pair]
        /\ echo_log.last # NoResponse =>
              LET pair == <<echo_log.last.client_key, echo_log.last.message>>
                  n == echo_log.count[pair]
              IN  /\ echo_log.last.status = (IF n <= EchoRecord(pair).failures
                                             THEN 503 ELSE 200)
                  /\ echo_log.last.status = 200 => echo_log.last.attempts = n

\* a record keeps its failures for as long as it exists
FailuresChosenOnce ==
    \A r \in echo_attempts : \A q \in echo_attempts' :
        q.id = r.id => q.failures = r.failures

\* C24: for each (client_key, message) the number of failures F is chosen
\* once, between 1 and 3, at the first request; the first F requests are
\* answered 503 and every later one succeeds with attempts equal to the
\* number of requests so far; reset_attempts deletes the client's records,
\* so that the next request starts a new cycle
C24_EchoFailsFirstF ==
    []EchoCycle /\ [][FailuresChosenOnce]_vars

\* a request succeeded in a cycle that began after a reset
C24_Witness ==
    /\ kind = "echo"
    /\ echo_log.last.status = 200
    /\ Cardinality(echo_attempts) = 1
    /\ \E r \in echo_attempts :
          /\ r.id >= 2
          /\ r.client_key = echo_log.last.client_key
          /\ r.failures = 2
          /\ echo_log.last.attempts = 3

NoRequestInFlight == \A s \in Slots : echo_reqs[s].pc = "idle"

\* C23: with requests arriving one after the other, from no stored record,
\* get_flaky_echo_payload with failures = N fails exactly N times, then
\* succeeds once with attempts = N + 1 and the request's message, the
\* success sets the stored counter back to 0, and the pattern repeats
C23_FlakyFailsNThenSucceeds ==
    (kind = "flaky_echo" /\ ~echo_log.overlapped /\ echo_log.served > 0) =>
        LET N == echo_log.failures
            position == (echo_log.served - 1) % (N + 1)
        IN  /\ echo_log.crashed = 0
            /\ IF position < N
               THEN /\ echo_log.last.status = 503
                    /\ NoRequestInFlight =>
                          \A r \in FlakyRows : r.attempts = position + 1
               ELSE /\ echo_log.last.status = 200
                    /\ echo_log.last.attempts = N + 1
                    /\ NoRequestInFlight =>
                          \A r \in FlakyRows : /\ r.attempts = 0
                                               /\ r.message = echo_log.last.message
            /\ Cardinality(FlakyRows) = 1

\* the second success of a client with failures = 2: six requests, one
\* after the other
C23_Witness ==
    /\ kind = "flaky_echo" /\ ~echo_log.overlapped
    /\ echo_log.failures = 2
    /\ echo_log.served = 6
    /\ echo_log.succeeded = 2
    /\ echo_log.last.status = 200

\* C29: whatever the interleaving of concurrent flaky-echo requests of one
\* client with the same N, there is at most one row for the key, no
\* increment is lost, exactly N requests fail before the first success, and
\* no request fails with anything but the simulated transient failure
C29_ConcurrentFlakyEcho ==
    kind = "flaky_echo" =>
        /\ Cardinality(FlakyRows) <= 1
        /\ echo_log.crashed = 0
        /\ echo_log.before_first_success \in {None, echo_log.failures}
        /\ NoRequestInFlight =>
              \A r \in FlakyRows : r.attempts = echo_log.since_success

\* the rows document_chunks holds for a file
RowsOf(stem) == SelectSeq(ingested, LAMBDA row : row.source = FileName(stem))

\* C25: ingest_file is idempotent per file: however often a file has been
\* ingested under its slug, the store holds for it the chunks one ingestion
\* of it gives, the rows stored for the slug before being removed
C25_IngestIdempotent ==
    kind = "ingest" =>
        \A stem \in Stems :
            ingest_log.latest[stem] # <<>> =>
                RowsOf(stem) = ingest_file(<<>>, stem, ingest_log.latest[stem])

\* the request has its Retriever
HasBuilt(slot) == rag_reqs[slot].pc \in {"search", "done"}

\* C21: when two concurrent requests both run ensure_embeddings over the
\* same store, whatever the interleaving, the store ends with the
\* embeddings one sequential run would have stored, no chunk is left
\* without an embedding, and both requests build their index over fully
\* embedded chunks
C21_BackfillRaceBenign ==
    (kind = "rag_shared" /\ rag_hist.ingested = 0 /\ \A slot \in Slots : HasBuilt(slot)) =>
        /\ \E slot \in Slots :
              chunks = WithEmbeddings(backend, rag_hist.store, rag_reqs[slot].seed)
        /\ \A i \in 1..Len(chunks) : chunks[i].embedding.has
        /\ \A slot \in Slots :
              /\ Len(rag_reqs[slot].built.index) = Len(rag_hist.store)
              /\ \A i \in 1..Len(rag_reqs[slot].built.index) :
                    rag_reqs[slot].built.index[i].has

\* both requests found a chunk without embedding, both wrote it, both built
C21_Witness ==
    /\ kind = "rag_shared" /\ rag_hist.ingested = 0
    /\ \A slot \in Slots : rag_reqs[slot].pc = "done"
    /\ rag_hist.commits = 2
    /\ MissingEmbeddings(rag_hist.store) = 2
    /\ rag_reqs[1].seed # rag_reqs[2].seed

\* C22: a Retriever is not modified after its construction, and a search
\* gives what the Retriever held when it was built, whatever was rebuilt
\* or ingested meanwhile
C22_RetrieverIsSnapshot ==
    kind = "rag_shared" =>
        \A slot \in Slots :
            /\ HasBuilt(slot) => retrievers[rag_reqs[slot].retriever] = rag_reqs[slot].built
            /\ rag_reqs[slot].pc = "done" =>
                  \E found \in search(Indexed(rag_reqs[slot].built),
                                      embed_text(backend, rag_reqs[slot].query,
                                                 rag_reqs[slot].seed), 3) :
                      rag_reqs[slot].results = found.results

\* the first request searched its one-chunk Retriever after the store had
\* grown and the second request had built a Retriever over two chunks
C22_Witness ==
    /\ kind = "rag_shared"
    /\ rag_reqs[1].pc = "done" /\ HasBuilt(2)
    /\ rag_hist.ingested = 1
    /\ Len(rag_reqs[1].built.chunks) = 1
    /\ Len(rag_reqs[2].built.chunks) = 2
    /\ Len(rag_reqs[1].results) = 1
    /\ Len(retrievers) = 2
====
